---- MODULE Spec2Model ----
(***************************************************************************)
(* Model of the calorie logger: the Fastify handlers of src/src/server.ts  *)
(* running against the in-memory storage adapter (createMemoryStorage),    *)
(* with the validators of src/src/lib.ts.                                  *)
(*                                                                         *)
(* Numbers are integer thousandths (1000 stands for 1.00 kcal), so that    *)
(* inputs with three decimals exercise the rounding of numberOrZero.       *)
(* A date string is a record [ws, ymd]: ymd is the tuple of its numeric    *)
(* fields (<<2026, 2, 28>> stands for "2026-02-28", <<>> for ""), ws says  *)
(* that the string carries surrounding whitespace.  Zero padding makes the *)
(* code-unit order of such strings the lexicographic order of the tuples.  *)
(* Entry identifiers "entry-N" are the integers N.                         *)
(* Entry fields quantity, source, raw_text are handled by the code exactly *)
(* as item, and confidence exactly as calories without a ledger effect;    *)
(* the model carries item and calories.  Handlers read the clock now and   *)
(* never set it; it moves on (Tick) in the specifications of the reads     *)
(* that depend on the day and stands still in the others, whose properties *)
(* read no timestamp.                                                      *)
(***************************************************************************)
EXTENDS Integers, Sequences, FiniteSets, TLC

VARIABLES entries, totals, counter, now, last, inflight

vars == <<entries, totals, counter, now, last, inflight>>

(* ------------------------------ bounds --------------------------------- *)
MaxEntries == 2
MaxItems == 2
MaxClock == 2
MaxRequests == 3

(* --------------------------- value helpers ----------------------------- *)
S(ymd) == [ws |-> FALSE, ymd |-> ymd]
W(ymd) == [ws |-> TRUE, ymd |-> ymd]
EmptyStr == S(<<>>)
Truthy(s) == s.ws \/ s.ymd # <<>>
Trim(s) == S(s.ymd)

Num(n) == [isNum |-> TRUE, milli |-> n]
NotANumber == [isNum |-> FALSE, milli |-> 0]

MissingId == 0

MEAL_TYPES == {"breakfast", "lunch", "dinner", "snacks"}

(* String.prototype.toLowerCase and trim on the plain strings in use *)
toLowerCase(s) ==
  CASE s = "Lunch" -> "lunch"
    [] s = "DINNER " -> "dinner "
    [] s = "TRUE" -> "true"
    [] s = "Meal_Type" -> "meal_type"
    [] OTHER -> s

trim(s) ==
  CASE s = "dinner " -> "dinner"
    [] s = "DINNER " -> "DINNER"
    [] OTHER -> s

(* JavaScript string comparison a <= b on date strings without whitespace *)
RECURSIVE SeqLeq(_, _)
SeqLeq(a, b) ==
  IF a = <<>> THEN TRUE
  ELSE IF b = <<>> THEN FALSE
  ELSE IF Head(a) # Head(b) THEN Head(a) < Head(b)
  ELSE SeqLeq(Tail(a), Tail(b))

StrLeq(a, b) == SeqLeq(a.ymd, b.ymd)

(* ------------------------------- lib.ts -------------------------------- *)
normalizeDate(value) ==
  IF ~Truthy(value) THEN EmptyStr ELSE Trim(value)

(* faulty variant: any meal type is accepted *)
normalizeMealType_any(value) ==
  [ok |-> TRUE, meal |-> trim(toLowerCase(value))]

normalizeMealType(value) ==
  LET meal == trim(toLowerCase(value))
  IN  [ok |-> meal \in MEAL_TYPES, meal |-> meal]

(* Math.round(x) is floor(x + 1/2) *)
MathRound100(milli) == (milli + 5) \div 10

numberOrZero(value) ==
  IF ~value.isNum THEN 0 ELSE MathRound100(value.milli) * 10

requireField(value) == Truthy(value)

validateLogItem(item) ==
  [name |-> item.name, calories |-> numberOrZero(item.calories)]

(* faulty variant: the empty item list is let through *)
validateLogRequest_noItemCheck(payload) ==
  LET date == normalizeDate(payload.date)
      mealType == normalizeMealType(payload.meal_type)
  IN  IF ~mealType.ok THEN [ok |-> FALSE, date |-> date, meal_type |-> "", items |-> <<>>]
      ELSE [ok |-> TRUE, date |-> date, meal_type |-> mealType.meal,
            items |-> [i \in 1..Len(payload.items) |-> validateLogItem(payload.items[i])]]

validateLogRequest(payload) ==
  LET date == normalizeDate(payload.date)
      mealType == normalizeMealType(payload.meal_type)
  IN  IF ~mealType.ok THEN [ok |-> FALSE, date |-> date, meal_type |-> "", items |-> <<>>]
      ELSE IF Len(payload.items) = 0
        THEN [ok |-> FALSE, date |-> date, meal_type |-> "", items |-> <<>>]
      ELSE [ok |-> TRUE, date |-> date, meal_type |-> mealType.meal,
            items |-> [i \in 1..Len(payload.items) |-> validateLogItem(payload.items[i])]]

(* ------------------------ createMemoryStorage -------------------------- *)
nextId(c) == c + 1

createEntries(e, c, items) ==
  LET ids == [i \in 1..Len(items) |-> nextId(c + i - 1)]
      created == [i \in 1..Len(items) |-> [entry_id |-> ids[i]] @@ items[i]]
      idset == {ids[i] : i \in 1..Len(items)}
      slot(id) == CHOOSE i \in 1..Len(items) : ids[i] = id
  IN  [entries |-> [id \in DOMAIN e \cup idset |->
                      IF id \in idset THEN created[slot(id)] ELSE e[id]],
       counter |-> c + Len(items),
       created |-> created]

getEntry(e, entryId) == entryId \in DOMAIN e

(* faulty variant: the row is overwritten with the delta instead of added to *)
incrementTotal_overwrite(t, date, delta) ==
  [d \in DOMAIN t \cup {date} |->
     IF d = date THEN numberOrZero(Num(delta)) ELSE t[d]]

(* faulty variant: a row never goes below zero *)
incrementTotal_clamp(t, date, delta) ==
  LET current == IF date \in DOMAIN t THEN t[date] ELSE 0
      sum == numberOrZero(Num(current + delta))
  IN  [d \in DOMAIN t \cup {date} |->
         IF d = date THEN (IF sum < 0 THEN 0 ELSE sum) ELSE t[d]]

incrementTotal(t, date, delta) ==
  LET current == IF date \in DOMAIN t THEN t[date] ELSE 0
  IN  [d \in DOMAIN t \cup {date} |->
         IF d = date THEN numberOrZero(Num(current + delta)) ELSE t[d]]

getTotal(t, date) ==
  numberOrZero(Num(IF date \in DOMAIN t THEN t[date] ELSE 0))

(* the calls of updateDailyTotal a handler makes, in order *)
RECURSIVE updateDailyTotal(_, _)
updateDailyTotal(t, incs) ==
  IF incs = <<>> THEN t
  ELSE updateDailyTotal(incrementTotal(t, Head(incs).date, Head(incs).delta), Tail(incs))

(* ------------------------------ replies -------------------------------- *)
(* last is the reply to the latest request: the endpoint, the status and  *)
(* the fields of the body.  Three fields are history rather than body:     *)
(* incs, the calls of updateDailyTotal the handler made, in order; target, *)
(* the entry_id an update or delete asked for; fields, the keys of the     *)
(* update set of an update that was applied; reads, the calls of           *)
(* getTotalsRange a trailing-window read made.                             *)
Reply(op, status) ==
  [op |-> op, status |-> status, date |-> EmptyStr,
   total_calories |-> 0, entry_ids |-> <<>>, entry_id |-> MissingId,
   start |-> EmptyStr, end |-> EmptyStr, totals |-> <<>>, group |-> "",
   entries |-> <<>>, datetime |-> 0,
   incs |-> <<>>, target |-> MissingId, fields |-> {}, reads |-> <<>>]

(* ------------------------------ POST /log ------------------------------ *)
RECURSIVE SumCalories(_)
SumCalories(items) ==
  IF items = <<>> THEN 0
  ELSE numberOrZero(Num(Head(items).calories)) + SumCalories(Tail(items))

LogEntryInputs(data, timestamp) ==
  [i \in 1..Len(data.items) |->
     [timestamp |-> timestamp,
      date |-> data.date,
      meal_type |-> data.meal_type,
      item |-> data.items[i].name,
      calories |-> numberOrZero(Num(data.items[i].calories))]]

(* faulty variant: the delta counts the first item only *)
LogIncrements_first(data) ==
  <<[date |-> data.date, delta |-> numberOrZero(Num(data.items[1].calories))]>>

LogIncrements(data) ==
  <<[date |-> data.date, delta |-> SumCalories(data.items)]>>

(* timestamp is the clock reading now (new Date()); handlers only read the *)
(* clock                                                                   *)
Log(payload) ==
  LET data == validateLogRequest(payload)
  IN  IF ~data.ok
      THEN /\ last' = Reply("log", 400)
           /\ UNCHANGED <<entries, totals, counter, now>>
      ELSE LET res == createEntries(entries, counter, LogEntryInputs(data, now))
               incs == LogIncrements(data)
               t2 == updateDailyTotal(totals, incs)
           IN  /\ counter + Len(data.items) <= MaxEntries
               /\ entries' = res.entries
               /\ counter' = res.counter
               /\ totals' = t2
               /\ UNCHANGED now
               /\ last' = [Reply("log", 200) EXCEPT
                             !.date = data.date,
                             !.total_calories = getTotal(t2, data.date),
                             !.entry_ids = [i \in 1..Len(res.created) |-> res.created[i].entry_id],
                             !.incs = incs]

(* ---------------------------- POST /update ----------------------------- *)
(* faulty variant: an unknown meal_type is dropped instead of rejected *)
validateUpdateRequest_lenient(payload) ==
  LET hasDate == "date" \in payload.present /\ Truthy(payload.date)
      meal == normalizeMealType(payload.meal_type)
      hasMeal == "meal_type" \in payload.present /\ payload.meal_type # "" /\ meal.ok
  IN  [ok |-> TRUE, entry_id |-> payload.entry_id,
       has |-> (payload.present \ {"date", "meal_type"})
                 \cup (IF hasDate THEN {"date"} ELSE {})
                 \cup (IF hasMeal THEN {"meal_type"} ELSE {}),
       date |-> IF hasDate THEN normalizeDate(payload.date) ELSE EmptyStr,
       meal_type |-> IF hasMeal THEN meal.meal ELSE "",
       item |-> IF "item" \in payload.present THEN payload.item ELSE "",
       calories |-> IF "calories" \in payload.present
                      THEN numberOrZero(payload.calories) ELSE 0]

validateUpdateRequest(payload) ==
  LET hasDate == "date" \in payload.present /\ Truthy(payload.date)
      hasMeal == "meal_type" \in payload.present /\ payload.meal_type # ""
      meal == normalizeMealType(payload.meal_type)
  IN  IF hasMeal /\ ~meal.ok
      THEN [ok |-> FALSE, entry_id |-> payload.entry_id, has |-> {},
            date |-> EmptyStr, meal_type |-> "", item |-> "", calories |-> 0]
      ELSE [ok |-> TRUE, entry_id |-> payload.entry_id,
            has |-> (payload.present \ {"date", "meal_type"})
                      \cup (IF hasDate THEN {"date"} ELSE {})
                      \cup (IF hasMeal THEN {"meal_type"} ELSE {}),
            date |-> IF hasDate THEN normalizeDate(payload.date) ELSE EmptyStr,
            meal_type |-> IF hasMeal THEN meal.meal ELSE "",
            item |-> IF "item" \in payload.present THEN payload.item ELSE "",
            calories |-> IF "calories" \in payload.present
                           THEN numberOrZero(payload.calories) ELSE 0]

(* faulty variant: calories absent from the update set are taken as 0 *)
UpdatePayload_zeroCalories(data, currentEntry) ==
  [date |-> IF "date" \in data.has /\ Truthy(data.date)
              THEN data.date ELSE normalizeDate(currentEntry.date),
   meal_type |-> IF "meal_type" \in data.has /\ data.meal_type # ""
                   THEN data.meal_type ELSE currentEntry.meal_type,
   item |-> IF "item" \notin data.has THEN currentEntry.item ELSE data.item,
   calories |-> numberOrZero(Num(data.calories))]

UpdatePayload(data, currentEntry) ==
  [date |-> IF "date" \in data.has /\ Truthy(data.date)
              THEN data.date ELSE normalizeDate(currentEntry.date),
   meal_type |-> IF "meal_type" \in data.has /\ data.meal_type # ""
                   THEN data.meal_type ELSE currentEntry.meal_type,
   item |-> IF "item" \notin data.has THEN currentEntry.item ELSE data.item,
   calories |-> IF "calories" \notin data.has
                  THEN numberOrZero(Num(currentEntry.calories))
                  ELSE numberOrZero(Num(data.calories))]

(* faulty variant: the merged entry is stamped with the time of the update *)
updateEntry_restamp(e, entryId, updates) ==
  IF entryId \notin DOMAIN e THEN e
  ELSE [e EXCEPT ![entryId] =
          [entry_id |-> entryId, timestamp |-> now] @@ updates]

updateEntry(e, entryId, updates) ==
  IF entryId \notin DOMAIN e THEN e
  ELSE [e EXCEPT ![entryId] =
          [entry_id |-> entryId, timestamp |-> @.timestamp] @@ updates]

(* faulty variant: a zero delta is issued like any other *)
UpdateIncrements_noSkip(currentEntry, newDate, newCalories) ==
  IF newDate # normalizeDate(currentEntry.date)
  THEN << [date |-> normalizeDate(currentEntry.date),
           delta |-> 0 - numberOrZero(Num(currentEntry.calories))],
          [date |-> newDate, delta |-> numberOrZero(Num(newCalories))] >>
  ELSE << [date |-> newDate,
           delta |-> numberOrZero(Num(newCalories)) - numberOrZero(Num(currentEntry.calories))] >>

(* faulty variant: a date change leaves the old date's total alone *)
UpdateIncrements_noDecrement(currentEntry, newDate, newCalories) ==
  IF newDate # normalizeDate(currentEntry.date)
  THEN << [date |-> newDate, delta |-> numberOrZero(Num(newCalories))] >>
  ELSE LET delta == numberOrZero(Num(newCalories)) - numberOrZero(Num(currentEntry.calories))
       IN  IF delta # 0 THEN << [date |-> newDate, delta |-> delta] >> ELSE << >>

UpdateIncrements(currentEntry, newDate, newCalories) ==
  IF newDate # normalizeDate(currentEntry.date)
  THEN << [date |-> normalizeDate(currentEntry.date),
           delta |-> 0 - numberOrZero(Num(currentEntry.calories))],
          [date |-> newDate, delta |-> numberOrZero(Num(newCalories))] >>
  ELSE LET delta == numberOrZero(Num(newCalories)) - numberOrZero(Num(currentEntry.calories))
       IN  IF delta # 0 THEN << [date |-> newDate, delta |-> delta] >> ELSE << >>

Update(payload) ==
  LET data == validateUpdateRequest(payload)
  IN  IF ~data.ok
      THEN /\ last' = [Reply("update", 400) EXCEPT !.target = payload.entry_id]
           /\ UNCHANGED <<entries, totals, counter, now>>
      ELSE IF ~getEntry(entries, data.entry_id)
      THEN /\ last' = [Reply("update", 404) EXCEPT !.target = payload.entry_id]
           /\ UNCHANGED <<entries, totals, counter, now>>
      ELSE LET currentEntry == entries[data.entry_id]
               updatePayload == UpdatePayload(data, currentEntry)
               incs == UpdateIncrements(currentEntry, updatePayload.date, updatePayload.calories)
               t2 == updateDailyTotal(totals, incs)
           IN  /\ entries' = updateEntry(entries, data.entry_id, updatePayload)
               /\ totals' = t2
               /\ last' = [Reply("update", 200) EXCEPT
                             !.target = payload.entry_id,
                             !.fields = payload.present,
                             !.entry_id = data.entry_id,
                             !.date = updatePayload.date,
                             !.total_calories = getTotal(t2, updatePayload.date),
                             !.incs = incs]
               /\ UNCHANGED <<counter, now>>

(* ---------------------------- POST /delete ----------------------------- *)
(* faulty variant: the entry is returned but not removed *)
deleteEntry_keep(e, entryId) == e

deleteEntry(e, entryId) ==
  IF entryId \notin DOMAIN e THEN e
  ELSE [id \in DOMAIN e \ {entryId} |-> e[id]]

(* faulty variant: the calories are added instead of subtracted *)
DeleteIncrements_plus(currentEntry) ==
  << [date |-> normalizeDate(currentEntry.date),
      delta |-> numberOrZero(Num(currentEntry.calories))] >>

DeleteIncrements(currentEntry) ==
  << [date |-> normalizeDate(currentEntry.date),
      delta |-> 0 - numberOrZero(Num(currentEntry.calories))] >>

Delete(payload) ==
  IF payload.entry_id = MissingId
  THEN /\ last' = [Reply("delete", 400) EXCEPT !.target = payload.entry_id]
       /\ UNCHANGED <<entries, totals, counter, now>>
  ELSE IF ~getEntry(entries, payload.entry_id)
  THEN /\ last' = [Reply("delete", 404) EXCEPT !.target = payload.entry_id]
       /\ UNCHANGED <<entries, totals, counter, now>>
  ELSE LET currentEntry == entries[payload.entry_id]
           incs == DeleteIncrements(currentEntry)
           t2 == updateDailyTotal(totals, incs)
       IN  /\ entries' = deleteEntry(entries, payload.entry_id)
           /\ totals' = t2
           /\ last' = [Reply("delete", 200) EXCEPT
                         !.target = payload.entry_id,
                         !.entry_id = payload.entry_id,
                         !.date = normalizeDate(currentEntry.date),
                         !.total_calories = getTotal(t2, normalizeDate(currentEntry.date)),
                         !.incs = incs]
           /\ UNCHANGED <<counter, now>>

(* -------------------- dates: toDate_, formatLocalDate_ ----------------- *)
(* A Date is held by its local calendar fields <<year, month, day>>; its   *)
(* time value orders Dates by the number of days since year 0.            *)
IsLeap(y) == (y % 4 = 0 /\ y % 100 # 0) \/ y % 400 = 0

DaysInMonth(y, m) ==
  IF m = 2 THEN (IF IsLeap(y) THEN 29 ELSE 28)
  ELSE IF m \in {4, 6, 9, 11} THEN 30 ELSE 31

RECURSIVE DaysBeforeMonth(_, _)
DaysBeforeMonth(y, m) ==
  IF m <= 1 THEN 0 ELSE DaysInMonth(y, m - 1) + DaysBeforeMonth(y, m - 1)

getTime(date) ==
  365 * date[1] + ((date[1] + 3) \div 4) - ((date[1] + 99) \div 100)
    + ((date[1] + 399) \div 400) + DaysBeforeMonth(date[1], date[2]) + date[3]

(* new Date(`${value}T00:00:00`): NaN unless value is a calendar date *)
toDate_(value) ==
  LET f == value.ymd
      valid == /\ ~value.ws
               /\ Len(f) = 3
               /\ f[2] \in 1..12
               /\ f[3] \in 1..DaysInMonth(f[1], f[2])
  IN  [ok |-> valid, date |-> IF valid THEN f ELSE <<0, 0, 0>>]

formatLocalDate_(date) == S(<<date[1], date[2], date[3]>>)

(* current.setDate(current.getDate() + 1) *)
(* faulty variant: every month is taken to have 31 days *)
setDateNext_31(date) ==
  IF date[3] + 1 <= 31 THEN <<date[1], date[2], date[3] + 1>>
  ELSE IF date[2] + 1 <= 12 THEN <<date[1], date[2] + 1, 1>>
  ELSE <<date[1] + 1, 1, 1>>

setDateNext(date) ==
  IF date[3] + 1 <= DaysInMonth(date[1], date[2]) THEN <<date[1], date[2], date[3] + 1>>
  ELSE IF date[2] + 1 <= 12 THEN <<date[1], date[2] + 1, 1>>
  ELSE <<date[1] + 1, 1, 1>>

RECURSIVE enumerateLoop(_, _)
enumerateLoop(current, endDate) ==
  IF getTime(current) <= getTime(endDate)
  THEN <<formatLocalDate_(current)>> \o enumerateLoop(setDateNext(current), endDate)
  ELSE << >>

enumerateDates_(start, end) ==
  LET startDate == toDate_(start)
      endDate == toDate_(end)
  IN  IF ~startDate.ok \/ ~endDate.ok THEN [ok |-> FALSE, dates |-> << >>]
      ELSE IF getTime(startDate.date) > getTime(endDate.date)
        THEN [ok |-> FALSE, dates |-> << >>]
      ELSE [ok |-> TRUE, dates |-> enumerateLoop(startDate.date, endDate.date)]

(* ------------------ storage range reads (src/src/index.ts) ------------- *)
RECURSIVE SortDates(_)
SortDates(ds) ==
  IF ds = {} THEN << >>
  ELSE LET m == CHOOSE x \in ds : \A y \in ds : StrLeq(x, y)
       IN  <<m>> \o SortDates(ds \ {m})

(* faulty variant: the end of the interval is left out *)
getTotalsRange_exclusive(t, start, end) ==
  LET ds == SortDates({d \in DOMAIN t : StrLeq(start, d) /\ StrLeq(d, end) /\ d # end})
  IN  [i \in 1..Len(ds) |-> [date |-> ds[i], total_calories |-> numberOrZero(Num(t[ds[i]]))]]

(* faulty variant: rows whose total is zero are left out *)
getTotalsRange_nonZero(t, start, end) ==
  LET ds == SortDates({d \in DOMAIN t : StrLeq(start, d) /\ StrLeq(d, end) /\ t[d] # 0})
  IN  [i \in 1..Len(ds) |-> [date |-> ds[i], total_calories |-> numberOrZero(Num(t[ds[i]]))]]

getTotalsRange(t, start, end) ==
  LET ds == SortDates({d \in DOMAIN t : StrLeq(start, d) /\ StrLeq(d, end)})
  IN  [i \in 1..Len(ds) |-> [date |-> ds[i], total_calories |-> numberOrZero(Num(t[ds[i]]))]]

(* the comparator of listEntriesRange; the sort is stable, Map order is id order *)
(* faulty variant: within a date the oldest entry comes first *)
EntryBefore_oldestFirst(a, b) ==
  IF a.date = b.date
  THEN a.timestamp < b.timestamp \/ (a.timestamp = b.timestamp /\ a.entry_id <= b.entry_id)
  ELSE StrLeq(a.date, b.date)

EntryBefore(a, b) ==
  IF a.date = b.date
  THEN a.timestamp > b.timestamp \/ (a.timestamp = b.timestamp /\ a.entry_id <= b.entry_id)
  ELSE StrLeq(a.date, b.date)

RECURSIVE SortEntries(_)
SortEntries(es) ==
  IF es = {} THEN << >>
  ELSE LET m == CHOOSE x \in es : \A y \in es : EntryBefore(x, y)
       IN  <<m>> \o SortEntries(es \ {m})

(* Array.prototype.slice(offset, offset + limit) on integer positions: a  *)
(* negative position counts from the end of the array                     *)
SliceIndex(len, k) ==
  IF k < 0 THEN (IF len + k > 0 THEN len + k ELSE 0)
  ELSE IF k < len THEN k ELSE len

Slice(seq, offset, limit) ==
  LET lo == SliceIndex(Len(seq), offset)
      hi == SliceIndex(Len(seq), offset + limit)
  IN  [i \in 1..(IF hi > lo THEN hi - lo ELSE 0) |-> seq[lo + i]]

listEntries(e, date, limit, offset) ==
  Slice(SortEntries({e[id] : id \in {i \in DOMAIN e : e[i].date = date}}),
        offset, limit)

(* faulty variant: the entries dated end are left out *)
listEntriesRange_openEnd(e, start, end, limit, offset) ==
  Slice(SortEntries({e[id] : id \in {i \in DOMAIN e :
                       StrLeq(start, e[i].date) /\ StrLeq(e[i].date, end)
                         /\ e[i].date # end}}),
        offset, limit)

listEntriesRange(e, start, end, limit, offset) ==
  Slice(SortEntries({e[id] : id \in {i \in DOMAIN e :
                       StrLeq(start, e[i].date) /\ StrLeq(e[i].date, end)}}),
        offset, limit)

(* -------------------------- GET /summary-range ------------------------- *)
GroupLimit == 10000

ZeroBuckets == [breakfast |-> 0, lunch |-> 0, dinner |-> 0, snacks |-> 0]

(* faulty variant: a bucket keeps the last entry's calories instead of the sum *)
RECURSIVE FoldByDate_overwrite(_, _)
FoldByDate_overwrite(list, totalsByDate) ==
  IF list = << >> THEN totalsByDate
  ELSE LET entry == Head(list)
           dateKey == entry.date
           row == IF dateKey \in DOMAIN totalsByDate THEN totalsByDate[dateKey] ELSE ZeroBuckets
           meal == entry.meal_type
           row2 == IF meal \in DOMAIN row
                   THEN [row EXCEPT ![meal] = numberOrZero(Num(entry.calories))]
                   ELSE row
       IN  FoldByDate_overwrite(Tail(list),
                      [d \in DOMAIN totalsByDate \cup {dateKey} |->
                         IF d = dateKey THEN row2 ELSE totalsByDate[d]])

RECURSIVE FoldByDate(_, _)
FoldByDate(list, totalsByDate) ==
  IF list = << >> THEN totalsByDate
  ELSE LET entry == Head(list)
           dateKey == entry.date
           row == IF dateKey \in DOMAIN totalsByDate THEN totalsByDate[dateKey] ELSE ZeroBuckets
           meal == entry.meal_type
           row2 == IF meal \in DOMAIN row
                   THEN [row EXCEPT ![meal] = numberOrZero(Num(@ + numberOrZero(Num(entry.calories))))]
                   ELSE row
       IN  FoldByDate(Tail(list),
                      [d \in DOMAIN totalsByDate \cup {dateKey} |->
                         IF d = dateKey THEN row2 ELSE totalsByDate[d]])

FilledTotals(t, start, end, dates) ==
  LET rows == getTotalsRange(t, start, end)
      mapGet(date) == IF \E i \in 1..Len(rows) : rows[i].date = date
                      THEN rows[CHOOSE i \in 1..Len(rows) : rows[i].date = date].total_calories
                      ELSE 0
  IN  [i \in 1..Len(dates) |-> [date |-> dates[i], total_calories |-> mapGet(dates[i])]]

SummaryRangeReply(e, t, query) ==
  IF ~requireField(query.start) \/ ~requireField(query.end)
  THEN Reply("summary-range", 400)
  ELSE
    LET start == normalizeDate(query.start)
        end == normalizeDate(query.end)
        includeEmpty == toLowerCase(query.include_empty) = "true"
        group == toLowerCase(query.group)
        enum == enumerateDates_(start, end)
    IN  IF group = "meal_type"
        THEN LET list == listEntriesRange(e, start, end, GroupLimit, 0)
                 totalsByDate == FoldByDate(list, [x \in {} |-> ZeroBuckets])
                 dates == IF includeEmpty THEN enum.dates ELSE SortDates(DOMAIN totalsByDate)
             IN  IF includeEmpty /\ ~enum.ok
                 THEN Reply("summary-range", 400)
                 ELSE [Reply("summary-range", 200) EXCEPT
                                 !.start = start, !.end = end,
                                 !.group = "meal_type",
                                 !.totals = [i \in 1..Len(dates) |->
                                    [date |-> dates[i],
                                     totals |-> IF dates[i] \in DOMAIN totalsByDate
                                                  THEN totalsByDate[dates[i]] ELSE ZeroBuckets]]]
        ELSE IF includeEmpty
        THEN IF ~enum.ok
             THEN Reply("summary-range", 400)
             ELSE [Reply("summary-range", 200) EXCEPT
                             !.start = start, !.end = end,
                             !.totals = FilledTotals(t, start, end, enum.dates)]
        ELSE [Reply("summary-range", 200) EXCEPT
                        !.start = start, !.end = end,
                        !.totals = getTotalsRange(t, start, end)]

SummaryRange(query) ==
  /\ UNCHANGED <<entries, totals, counter, now>>
  /\ last' = SummaryRangeReply(entries, totals, query)

(* ----------------------------- GET /summary ---------------------------- *)
SummaryReply(t, query) ==
  IF ~requireField(query.date) THEN Reply("summary", 400)
  ELSE LET date == normalizeDate(query.date)
       IN  [Reply("summary", 200) EXCEPT !.date = date, !.total_calories = getTotal(t, date)]

(* faulty variant: the point read leaves a ledger row behind for its date *)
Summary_touch(query) ==
  /\ UNCHANGED <<entries, counter, now>>
  /\ totals' = IF requireField(query.date)
               THEN incrementTotal(totals, normalizeDate(query.date), 0) ELSE totals
  /\ last' = SummaryReply(totals, query)

Summary(query) ==
  /\ UNCHANGED <<entries, totals, counter, now>>
  /\ last' = SummaryReply(totals, query)

(* ---------------------- GET /list, GET /entries-range ------------------ *)
(* A numeric query parameter is absent (or empty), or holds the text of an *)
(* integer, of NaN or of Infinity; Number(v || d) is its value.            *)
Absent == [kind |-> "absent", n |-> 0]
IntText(n) == [kind |-> "number", n |-> n]
NaNText == [kind |-> "nan", n |-> 0]
InfinityText == [kind |-> "infinity", n |-> 0]

NumberOr(v, default) == IF v.kind = "absent" THEN IntText(default) ELSE v

DefaultLimit == 100
DefaultOffset == 0

ListReply(e, query) ==
  IF ~requireField(query.date) THEN Reply("list", 400)
  ELSE LET date == normalizeDate(query.date)
           limit == NumberOr(query.limit, DefaultLimit)
           offset == NumberOr(query.offset, DefaultOffset)
       IN  [Reply("list", 200) EXCEPT
              !.date = date, !.entries = listEntries(e, date, limit.n, offset.n)]

List(query) ==
  /\ UNCHANGED <<entries, totals, counter, now>>
  /\ last' = ListReply(entries, query)

EntriesRangeReply(e, query) ==
  IF ~requireField(query.start) \/ ~requireField(query.end)
  THEN Reply("entries-range", 400)
  ELSE LET start == normalizeDate(query.start)
           end == normalizeDate(query.end)
           limit == NumberOr(query.limit, DefaultLimit)
           offset == NumberOr(query.offset, DefaultOffset)
       IN  [Reply("entries-range", 200) EXCEPT
              !.start = start, !.end = end,
              !.entries = listEntriesRange(e, start, end, limit.n, offset.n)]

EntriesRange(query) ==
  /\ UNCHANGED <<entries, totals, counter, now>>
  /\ last' = EntriesRangeReply(entries, query)

(* --------------------------- GET /summary-last ------------------------- *)
(* The clock counts days: new Date() is the local date now days after the  *)
(* date the clock showed at construction.                                  *)
ClockEpoch == <<2026, 3, 1>>

(* date.setDate(date.getDate() - 1) *)
(* faulty variant: the day before the first of a month is taken to be the 30th *)
setDatePrev_30(date) ==
  IF date[3] > 1 THEN <<date[1], date[2], date[3] - 1>>
  ELSE IF date[2] > 1 THEN <<date[1], date[2] - 1, 30>>
  ELSE <<date[1] - 1, 12, 30>>

setDatePrev(date) ==
  IF date[3] > 1 THEN <<date[1], date[2], date[3] - 1>>
  ELSE IF date[2] > 1 THEN <<date[1], date[2] - 1, DaysInMonth(date[1], date[2] - 1)>>
  ELSE <<date[1] - 1, 12, 31>>

(* date.setDate(date.getDate() + days), normalised a day at a time *)
RECURSIVE addDays_(_, _)
addDays_(value, days) ==
  IF days = 0 THEN value
  ELSE IF days > 0 THEN addDays_(setDateNext(value), days - 1)
  ELSE addDays_(setDatePrev(value), days + 1)

newDate(clock) == addDays_(ClockEpoch, clock)

DefaultDays == 7

SummaryLastReply(t, clock, query) ==
  LET days == NumberOr(query.days, DefaultDays)
  IN  IF days.kind # "number" \/ days.n <= 0
      THEN Reply("summary-last", 400)
      ELSE
        LET includeEmpty == toLowerCase(query.include_empty) = "true"
            end == formatLocalDate_(newDate(clock))
            start == formatLocalDate_(addDays_(newDate(clock), 0 - (days.n - 1)))
            rows == getTotalsRange(t, start, end)
            enum == enumerateDates_(start, end)
        IN  IF includeEmpty
            THEN IF ~enum.ok
                 THEN [Reply("summary-last", 400) EXCEPT !.reads = <<[start |-> start, end |-> end]>>]
                 ELSE [Reply("summary-last", 200) EXCEPT
                         !.start = start, !.end = end,
                         !.totals = FilledTotals(t, start, end, enum.dates),
                         !.reads = <<[start |-> start, end |-> end]>>]
            ELSE [Reply("summary-last", 200) EXCEPT
                    !.start = start, !.end = end, !.totals = rows,
                    !.reads = <<[start |-> start, end |-> end]>>]

SummaryLast(query) ==
  /\ UNCHANGED <<entries, totals, counter, now>>
  /\ last' = SummaryLastReply(totals, now, query)

(* the clock moves on by a day, up to MaxClock days *)
Tick ==
  /\ now < MaxClock
  /\ now' = now + 1
  /\ UNCHANGED <<entries, totals, counter, last>>

(* ------------------------ GET /health, GET /time ----------------------- *)
Health ==
  /\ UNCHANGED <<entries, totals, counter, now>>
  /\ last' = Reply("health", 200)

Time ==
  /\ UNCHANGED <<entries, totals, counter, now>>
  /\ last' = [Reply("time", 200) EXCEPT !.datetime = now]

(* ------------------- the handlers, await by await ---------------------- *)
(* Log, Update and Delete above are requests served one at a time.  A      *)
(* handler gives up control at each await of a storage call, and requests  *)
(* that overlap interleave there.  inflight[r] is the handler of the r-th  *)
(* request to arrive: where it stands (pc) and its local variables.  A     *)
(* storage call takes effect when it is made, so a step runs the handler   *)
(* from one await up to and including the next storage call.               *)
Slots == 1..MaxRequests

NoEntry == << >>

Handler(pc, op, data, cur, date, incs, ids) ==
  [pc |-> pc, op |-> op, data |-> data, cur |-> cur, date |-> date,
   incs |-> incs, issued |-> << >>, entry_ids |-> ids, reply |-> Reply("none", 0)]

IdleHandler == Handler("idle", "none", << >>, NoEntry, EmptyStr, << >>, << >>)

Replied(h, reply) ==
  [h EXCEPT !.pc = "done", !.reply = reply]

Arrives(r) ==
  /\ inflight[r].pc = "idle"
  /\ \A q \in 1..(r - 1) : inflight[q].pc # "idle"

(* POST /log up to the call of createEntries *)
LogBegin(r, payload) ==
  /\ Arrives(r)
  /\ LET data == validateLogRequest(payload)
     IN  IF ~data.ok
         THEN /\ last' = Reply("log", 400)
              /\ inflight' = [inflight EXCEPT ![r] = Replied(@, Reply("log", 400))]
              /\ UNCHANGED <<entries, totals, counter, now>>
         ELSE LET res == createEntries(entries, counter, LogEntryInputs(data, now))
              IN  /\ entries' = res.entries
                  /\ counter' = res.counter
                  /\ inflight' = [inflight EXCEPT ![r] =
                       Handler("increment", "log", data, NoEntry, data.date,
                               LogIncrements(data),
                               [i \in 1..Len(res.created) |-> res.created[i].entry_id])]
                  /\ UNCHANGED <<totals, now, last>>

(* POST /update up to the call of getEntry, and the 404 that follows it *)
UpdateBegin(r, payload) ==
  /\ Arrives(r)
  /\ UNCHANGED <<entries, totals, counter, now>>
  /\ LET data == validateUpdateRequest(payload)
         bad == [Reply("update", 400) EXCEPT !.target = payload.entry_id]
         none == [Reply("update", 404) EXCEPT !.target = payload.entry_id]
     IN  IF ~data.ok
         THEN /\ last' = bad
              /\ inflight' = [inflight EXCEPT ![r] = Replied(@, bad)]
         ELSE IF ~getEntry(entries, data.entry_id)
         THEN /\ last' = none
              /\ inflight' = [inflight EXCEPT ![r] = Replied(@, none)]
         ELSE /\ last' = last
              /\ inflight' = [inflight EXCEPT ![r] =
                   Handler("write", "update", data, entries[data.entry_id],
                           EmptyStr, << >>, <<data.entry_id>>)]

(* POST /delete up to the call of getEntry, and the 404 that follows it *)
DeleteBegin(r, payload) ==
  /\ Arrives(r)
  /\ UNCHANGED <<entries, totals, counter, now>>
  /\ LET bad == [Reply("delete", 400) EXCEPT !.target = payload.entry_id]
         none == [Reply("delete", 404) EXCEPT !.target = payload.entry_id]
     IN  IF payload.entry_id = MissingId
         THEN /\ last' = bad
              /\ inflight' = [inflight EXCEPT ![r] = Replied(@, bad)]
         ELSE IF ~getEntry(entries, payload.entry_id)
         THEN /\ last' = none
              /\ inflight' = [inflight EXCEPT ![r] = Replied(@, none)]
         ELSE /\ last' = last
              /\ inflight' = [inflight EXCEPT ![r] =
                   Handler("write", "delete", << >>, entries[payload.entry_id],
                           EmptyStr, << >>, <<payload.entry_id>>)]

(* the call of updateEntry or deleteEntry, with the entry getEntry returned *)
Write(r) ==
  LET h == inflight[r]
      entryId == h.entry_ids[1]
  IN  /\ h.pc = "write"
      /\ UNCHANGED <<totals, counter, now, last>>
      /\ IF h.op = "update"
         THEN LET updatePayload == UpdatePayload(h.data, h.cur)
              IN  /\ entries' = updateEntry(entries, entryId, updatePayload)
                  /\ inflight' = [inflight EXCEPT ![r] =
                       [h EXCEPT !.pc = "increment", !.date = updatePayload.date,
                                 !.incs = UpdateIncrements(h.cur, updatePayload.date,
                                                           updatePayload.calories)]]
         ELSE /\ entries' = deleteEntry(entries, entryId)
              /\ inflight' = [inflight EXCEPT ![r] =
                   [h EXCEPT !.pc = "increment", !.date = normalizeDate(h.cur.date),
                             !.incs = DeleteIncrements(h.cur)]]

(* faulty variant: incrementTotal reads the row, gives up control, and     *)
(* writes the sum on resuming                                              *)
Increment_split(r) ==
  LET h == inflight[r]
  IN  /\ h.pc \in {"increment", "increment-write"}
      /\ h.incs # << >>
      /\ UNCHANGED <<entries, counter, now, last>>
      /\ IF h.pc = "increment"
         THEN /\ totals' = totals
              /\ inflight' = [inflight EXCEPT ![r] =
                   [h EXCEPT !.pc = "increment-write",
                             !.data = <<getTotal(totals, Head(h.incs).date)>>]]
         ELSE /\ totals' = [d \in DOMAIN totals \cup {Head(h.incs).date} |->
                             IF d = Head(h.incs).date
                             THEN numberOrZero(Num(h.data[1] + Head(h.incs).delta))
                             ELSE totals[d]]
              /\ inflight' = [inflight EXCEPT ![r] =
                   [h EXCEPT !.pc = "increment", !.data = << >>,
                             !.incs = Tail(@), !.issued = Append(@, Head(h.incs))]]

(* faulty variant: the call of updateDailyTotal returns without adding the delta *)
Increment_drop(r) ==
  LET h == inflight[r]
  IN  /\ h.pc = "increment"
      /\ h.incs # << >>
      /\ inflight' = [inflight EXCEPT ![r] =
           [h EXCEPT !.incs = Tail(@), !.issued = Append(@, Head(h.incs))]]
      /\ UNCHANGED <<entries, totals, counter, now, last>>

(* the next call of updateDailyTotal *)
Increment(r) ==
  LET h == inflight[r]
  IN  /\ h.pc = "increment"
      /\ h.incs # << >>
      /\ totals' = incrementTotal(totals, Head(h.incs).date, Head(h.incs).delta)
      /\ inflight' = [inflight EXCEPT ![r] =
           [h EXCEPT !.incs = Tail(@), !.issued = Append(@, Head(h.incs))]]
      /\ UNCHANGED <<entries, counter, now, last>>

(* the call of updateDailyTotal is rejected by the storage: the handler's  *)
(* catch answers 400                                                       *)
(* faulty variant: the catch takes a create's entries out of the store again *)
IncrementFails_rollback(r) ==
  LET h == inflight[r]
      reply == [Reply(h.op, 400) EXCEPT
                  !.target = IF h.op = "log" THEN MissingId ELSE h.entry_ids[1],
                  !.incs = h.issued]
      created == IF h.op = "log" THEN {h.entry_ids[i] : i \in 1..Len(h.entry_ids)} ELSE {}
  IN  /\ h.pc = "increment"
      /\ h.incs # << >>
      /\ last' = reply
      /\ inflight' = [inflight EXCEPT ![r] = Replied(h, reply)]
      /\ entries' = [id \in DOMAIN entries \ created |-> entries[id]]
      /\ UNCHANGED <<totals, counter, now>>

IncrementFails(r) ==
  LET h == inflight[r]
      reply == [Reply(h.op, 400) EXCEPT
                  !.target = IF h.op = "log" THEN MissingId ELSE h.entry_ids[1],
                  !.incs = h.issued]
  IN  /\ h.pc = "increment"
      /\ h.incs # << >>
      /\ last' = reply
      /\ inflight' = [inflight EXCEPT ![r] = Replied(h, reply)]
      /\ UNCHANGED <<entries, totals, counter, now>>

(* the call of getTotal and the reply *)
ReadTotal(r) ==
  LET h == inflight[r]
      reply == [Reply(h.op, 200) EXCEPT
                  !.date = h.date,
                  !.total_calories = getTotal(totals, h.date),
                  !.entry_ids = IF h.op = "log" THEN h.entry_ids ELSE << >>,
                  !.entry_id = IF h.op = "log" THEN MissingId ELSE h.entry_ids[1],
                  !.target = IF h.op = "log" THEN MissingId ELSE h.entry_ids[1],
                  !.incs = h.issued]
  IN  /\ h.pc = "increment"
      /\ h.incs = << >>
      /\ last' = reply
      /\ inflight' = [inflight EXCEPT ![r] = Replied(h, reply)]
      /\ UNCHANGED <<entries, totals, counter, now>>

(* ------------------------ the routes behind authCheck ------------------ *)
(* headers.token is the X-Auth-Token header, "" when the header is absent  *)
AuthToken == "test-secret"

authCheck(headers) ==
  ~(headers.token = "" \/ headers.token # AuthToken)

Refuse(op) ==
  /\ UNCHANGED <<entries, totals, counter, now>>
  /\ last' = Reply(op, 401)

PostLog(headers, payload) ==
  IF ~authCheck(headers) THEN Refuse("log") ELSE Log(payload)

PostUpdate(headers, payload) ==
  IF ~authCheck(headers) THEN Refuse("update") ELSE Update(payload)

PostDelete(headers, payload) ==
  IF ~authCheck(headers) THEN Refuse("delete") ELSE Delete(payload)

GetSummary(headers, query) ==
  IF ~authCheck(headers) THEN Refuse("summary") ELSE Summary(query)

GetSummaryRange(headers, query) ==
  IF ~authCheck(headers) THEN Refuse("summary-range") ELSE SummaryRange(query)

GetSummaryLast(headers, query) ==
  IF ~authCheck(headers) THEN Refuse("summary-last") ELSE SummaryLast(query)

GetList(headers, query) ==
  IF ~authCheck(headers) THEN Refuse("list") ELSE List(query)

GetEntriesRange(headers, query) ==
  IF ~authCheck(headers) THEN Refuse("entries-range") ELSE EntriesRange(query)

(* the two routes registered without a call of authCheck *)
GetHealth(headers) == Health

GetTime(headers) == Time

(* ------------------------------ requests ------------------------------- *)
D0 == <<2026, 2, 27>>
D1 == <<2026, 2, 28>>
D2 == <<2026, 3, 1>>
D3 == <<2026, 3, 2>>

LogDates == {S(D1), W(D2)}
LogItem == [name : {"Banana"}, calories : {Num(1004), NotANumber}]
LogItems == UNION {[1..n -> LogItem] : n \in 1..MaxItems}
LogRequests ==
  [date : LogDates, meal_type : {"Lunch"}, items : LogItems]
    \cup [date : {S(D1)}, meal_type : {"Lunch", "brunch", ""}, items : {<< >>}]
    \cup [date : {S(D1)}, meal_type : {"brunch", ""},
          items : {<<[name |-> "Banana", calories |-> Num(1004)]>>}]

EntryIds == 1..(MaxEntries + 1)

Updates(present, date, meal, item, calories) ==
  [present |-> present, date |-> date, meal_type |-> meal, item |-> item, calories |-> calories]

UpdateSets ==
  { Updates({}, EmptyStr, "", "", NotANumber),
    Updates({"date"}, S(D1), "", "", NotANumber),
    Updates({"date"}, W(D2), "", "", NotANumber),
    Updates({"date"}, EmptyStr, "", "", NotANumber),
    Updates({"calories"}, EmptyStr, "", "", Num(1004)),
    Updates({"calories"}, EmptyStr, "", "", Num(0 - 1005)),
    Updates({"date", "calories"}, S(D2), "", "", Num(0 - 1005)),
    Updates({"meal_type"}, EmptyStr, "brunch", "", NotANumber) }

UpdateRequests ==
  {[entry_id |-> id] @@ u : id \in EntryIds, u \in UpdateSets}

DeleteRequests == [entry_id : EntryIds \cup {MissingId}]

RangeQueries ==
  [start : {S(D0), W(D2)}, end : {S(D1), S(D3)},
   include_empty : {"TRUE", ""}, group : {"", "Meal_Type"}]
    \cup [start : {EmptyStr}, end : {S(D3)}, include_empty : {"TRUE"}, group : {""}]
    \cup [start : {S(D0)}, end : {S(<<2026, 13, 1>>)}, include_empty : {"TRUE", ""}, group : {""}]

EntryRangeQueries ==
  [start : {S(D0), W(D2)}, end : {S(D1), S(D3)},
   limit : {Absent, IntText(1)}, offset : {Absent, IntText(1)}]

(* ---------------------------- specification ---------------------------- *)
EmptyMap == [x \in {} |-> 0]

Init ==
  /\ entries = EmptyMap
  /\ totals = EmptyMap
  /\ counter = 0
  /\ now = 0
  /\ last = Reply("none", 0)
  /\ inflight = [r \in Slots |-> IdleHandler]

Next ==
  \/ \E payload \in LogRequests : Log(payload) /\ UNCHANGED inflight
  \/ \E payload \in UpdateRequests : Update(payload) /\ UNCHANGED inflight
  \/ \E payload \in DeleteRequests : Delete(payload) /\ UNCHANGED inflight

Spec == Init /\ [][Next]_vars

(* the range reads, over the stores a few mutations build *)
RangeLogRequests ==
  [date : LogDates, meal_type : {"Lunch"},
   items : {<<[name |-> "Banana", calories |-> Num(1004)]>>}]

RangeUpdateRequests ==
  {[entry_id |-> id] @@ Updates({"date"}, W(D2), "", "", NotANumber) : id \in EntryIds}

NextRange ==
  \/ \E payload \in RangeLogRequests : Log(payload) /\ UNCHANGED inflight
  \/ \E payload \in RangeUpdateRequests : Update(payload) /\ UNCHANGED inflight
  \/ \E payload \in DeleteRequests : Delete(payload) /\ UNCHANGED inflight
  \/ \E query \in RangeQueries : SummaryRange(query) /\ UNCHANGED inflight
  \/ \E query \in EntryRangeQueries : EntriesRange(query) /\ UNCHANGED inflight

SpecRange == Init /\ [][NextRange]_vars

(* the grouped range read, over entries of several meal types *)
GroupLogRequests ==
  [date : LogDates, meal_type : {"Lunch", "DINNER "},
   items : {<<[name |-> "Banana", calories |-> Num(1004)]>>}]

GroupUpdateRequests ==
  {[entry_id |-> id] @@ u : id \in EntryIds,
     u \in {Updates({"meal_type"}, EmptyStr, "DINNER ", "", NotANumber)}}

GroupQueries ==
  [start : {S(D0), S(D2)}, end : {S(D1), S(D3)},
   include_empty : {"TRUE", ""}, group : {"Meal_Type"}]

NextGroup ==
  \/ \E payload \in GroupLogRequests : Log(payload) /\ UNCHANGED inflight
  \/ \E payload \in GroupUpdateRequests : Update(payload) /\ UNCHANGED inflight
  \/ \E payload \in DeleteRequests : Delete(payload) /\ UNCHANGED inflight
  \/ \E query \in GroupQueries : SummaryRange(query) /\ UNCHANGED inflight

SpecGroup == Init /\ [][NextGroup]_vars

(* the trailing-window read, as the clock moves on *)
LastQueries ==
  [days : {Absent, IntText(1), IntText(2), IntText(3), IntText(0), IntText(0 - 1),
           NaNText, InfinityText},
   include_empty : {"TRUE", ""}]

NextLast ==
  \/ \E payload \in RangeLogRequests : Log(payload) /\ UNCHANGED inflight
  \/ \E query \in LastQueries : SummaryLast(query) /\ UNCHANGED inflight
  \/ Tick /\ UNCHANGED inflight

SpecLast == Init /\ [][NextLast]_vars

(* creates that overlap, all on one date *)
ConcLogRequests ==
  [date : {S(D1)}, meal_type : {"Lunch"},
   items : {<<[name |-> "Banana", calories |-> Num(1004)]>>,
            <<[name |-> "Banana", calories |-> Num(2506)]>>}]

NextCreates ==
  \/ \E r \in Slots, payload \in ConcLogRequests : LogBegin(r, payload)
  \/ \E r \in Slots : Increment(r)
  \/ \E r \in Slots : ReadTotal(r)

SpecCreates == Init /\ [][NextCreates]_vars

(* creates, updates and deletes that overlap *)
RaceLogRequests ==
  [date : {S(D1)}, meal_type : {"Lunch"},
   items : {<<[name |-> "Banana", calories |-> Num(1004)]>>}]

RaceUpdateRequests ==
  {[entry_id |-> 1] @@ u :
     u \in {Updates({"calories"}, EmptyStr, "", "", Num(2506)),
            Updates({"date"}, S(D2), "", "", NotANumber)}}

RaceDeleteRequests == [entry_id : {1}]

NextRace ==
  \/ \E r \in Slots, payload \in RaceLogRequests : LogBegin(r, payload)
  \/ \E r \in Slots, payload \in RaceUpdateRequests : UpdateBegin(r, payload)
  \/ \E r \in Slots, payload \in RaceDeleteRequests : DeleteBegin(r, payload)
  \/ \E r \in Slots : Write(r)
  \/ \E r \in Slots : Increment(r)
  \/ \E r \in Slots : ReadTotal(r)

SpecRace == Init /\ [][NextRace]_vars

(* requests served one at a time by a storage that may reject an increment *)
NoneInFlight == \A r \in Slots : inflight[r].pc \in {"idle", "done"}

NextFail ==
  \/ \E r \in Slots, payload \in RaceLogRequests : NoneInFlight /\ LogBegin(r, payload)
  \/ \E r \in Slots, payload \in RaceUpdateRequests : NoneInFlight /\ UpdateBegin(r, payload)
  \/ \E r \in Slots, payload \in RaceDeleteRequests : NoneInFlight /\ DeleteBegin(r, payload)
  \/ \E r \in Slots : Write(r)
  \/ \E r \in Slots : Increment(r)
  \/ \E r \in Slots : IncrementFails(r)
  \/ \E r \in Slots : ReadTotal(r)

SpecFail == Init /\ [][NextFail]_vars

(* requests served one at a time, await by await, by a storage that never fails *)
NextSteps ==
  \/ \E r \in Slots, payload \in RaceLogRequests : NoneInFlight /\ LogBegin(r, payload)
  \/ \E r \in Slots, payload \in RaceUpdateRequests : NoneInFlight /\ UpdateBegin(r, payload)
  \/ \E r \in Slots, payload \in RaceDeleteRequests : NoneInFlight /\ DeleteBegin(r, payload)
  \/ \E r \in Slots : Write(r)
  \/ \E r \in Slots : Increment(r)
  \/ \E r \in Slots : ReadTotal(r)

SpecSteps == Init /\ [][NextSteps]_vars

(* updates of single fields of entries created at different times *)
FieldUpdateRequests ==
  {[entry_id |-> 1] @@ u :
     u \in {Updates({}, EmptyStr, "", "", NotANumber),
            Updates({"item"}, EmptyStr, "", "Apple", NotANumber),
            Updates({"meal_type", "calories"}, EmptyStr, "DINNER ", "", Num(2506)),
            Updates({"date", "meal_type"}, W(D2), "", "", NotANumber)}}
    \cup {[entry_id |-> 2] @@ Updates({"item"}, EmptyStr, "", "Apple", NotANumber)}

NextFields ==
  \/ \E payload \in RaceLogRequests : Log(payload) /\ UNCHANGED inflight
  \/ \E payload \in FieldUpdateRequests : Update(payload) /\ UNCHANGED inflight
  \/ Tick /\ UNCHANGED inflight

SpecFields == Init /\ [][NextFields]_vars

(* creates and updates that name known and unknown meal types *)
MealLogRequests ==
  [date : LogDates, meal_type : {"Lunch", "DINNER ", "brunch", ""},
   items : {<<[name |-> "Banana", calories |-> Num(1004)]>>}]

MealUpdateRequests ==
  {[entry_id |-> id] @@ u : id \in EntryIds,
     u \in {Updates({"meal_type"}, EmptyStr, "DINNER ", "", NotANumber),
            Updates({"meal_type"}, EmptyStr, "brunch", "", NotANumber),
            Updates({"meal_type", "calories"}, EmptyStr, "", "", Num(2506))}}

NextMeals ==
  \/ \E payload \in MealLogRequests : Log(payload) /\ UNCHANGED inflight
  \/ \E payload \in MealUpdateRequests : Update(payload) /\ UNCHANGED inflight

SpecMeals == Init /\ [][NextMeals]_vars

(* creates whose calories run through the thousandths around zero *)
RoundInputs == {Num(m) : m \in (0 - 56)..56}

RoundLogRequests ==
  [date : {S(D1)}, meal_type : {"Lunch"},
   items : {<<[name |-> "Banana", calories |-> v]>> : v \in RoundInputs}]

NextRound ==
  \E payload \in RoundLogRequests : Log(payload) /\ UNCHANGED inflight

SpecRound == Init /\ [][NextRound]_vars

(* mutations of dates, meal types and calories, each served to the end *)
AgreeUpdateRequests ==
  {[entry_id |-> id] @@ u : id \in EntryIds,
     u \in {Updates({"meal_type"}, EmptyStr, "DINNER ", "", NotANumber),
            Updates({"calories"}, EmptyStr, "", "", Num(2506)),
            Updates({"date"}, S(D2), "", "", NotANumber)}}

AgreeIntervals ==
  {[start |-> S(D0), end |-> S(D3)],
   [start |-> S(D1), end |-> S(D1)],
   [start |-> W(D2), end |-> S(D3)]}

NextAgree ==
  \/ \E payload \in GroupLogRequests : Log(payload) /\ UNCHANGED inflight
  \/ \E payload \in AgreeUpdateRequests : Update(payload) /\ UNCHANGED inflight
  \/ \E payload \in DeleteRequests : Delete(payload) /\ UNCHANGED inflight

SpecAgree == Init /\ [][NextAgree]_vars

(* creates, an update and a delete that overlap and aim at different entries *)
DistinctLogRequests ==
  [date : {S(D1)}, meal_type : {"Lunch"},
   items : {<<[name |-> "Banana", calories |-> Num(1004)]>>,
            <<[name |-> "Banana", calories |-> Num(1004)],
              [name |-> "Banana", calories |-> Num(2506)]>>}]

DistinctDeleteRequests == [entry_id : {2}]

NextDistinct ==
  \/ \E r \in Slots, payload \in DistinctLogRequests : LogBegin(r, payload)
  \/ \E r \in Slots, payload \in RaceUpdateRequests : UpdateBegin(r, payload)
  \/ \E r \in Slots, payload \in DistinctDeleteRequests : DeleteBegin(r, payload)
  \/ \E r \in Slots : Write(r)
  \/ \E r \in Slots : Increment(r)
  \/ \E r \in Slots : ReadTotal(r)

SpecDistinct == Init /\ [][NextDistinct]_vars

(* creates and updates whose date is absent or is no calendar date *)
NoSuchDate == S(<<2026, 13, 1>>)

DateLogRequests ==
  [date : {S(D1), EmptyStr, NoSuchDate}, meal_type : {"Lunch"},
   items : {<<[name |-> "Banana", calories |-> Num(1004)]>>}]

DateUpdateRequests ==
  {[entry_id |-> id] @@ u : id \in EntryIds,
     u \in {Updates({"date"}, S(D2), "", "", NotANumber),
            Updates({"date"}, NoSuchDate, "", "", NotANumber)}}

NextDates ==
  \/ \E payload \in DateLogRequests : Log(payload) /\ UNCHANGED inflight
  \/ \E payload \in DateUpdateRequests : Update(payload) /\ UNCHANGED inflight
  \/ \E payload \in DeleteRequests : Delete(payload) /\ UNCHANGED inflight

SpecDates == Init /\ [][NextDates]_vars

(* every route, with and without the token *)
Headers == [token : {AuthToken, "other-token", ""}]

ApiLogRequests == RaceLogRequests
ApiUpdateRequests ==
  {[entry_id |-> 1] @@ Updates({"calories"}, EmptyStr, "", "", Num(2506))}
ApiDeleteRequests == [entry_id : {1}]
PointQueries == [date : {S(D1), W(D2), EmptyStr}]
ApiRangeQueries ==
  [start : {S(D0)}, end : {S(D3)}, include_empty : {"TRUE", ""}, group : {"", "Meal_Type"}]
ApiLastQueries == [days : {Absent, IntText(2), IntText(0)}, include_empty : {"TRUE", ""}]
ListQueries == [date : {S(D1), EmptyStr}, limit : {Absent, IntText(1)}, offset : {Absent, IntText(1)}]
ApiEntryRangeQueries ==
  [start : {S(D0)}, end : {S(D3)}, limit : {Absent, IntText(1)}, offset : {Absent, IntText(1)}]

NextApi ==
  \/ \E h \in Headers, payload \in ApiLogRequests : PostLog(h, payload) /\ UNCHANGED inflight
  \/ \E h \in Headers, payload \in ApiUpdateRequests : PostUpdate(h, payload) /\ UNCHANGED inflight
  \/ \E h \in Headers, payload \in ApiDeleteRequests : PostDelete(h, payload) /\ UNCHANGED inflight
  \/ \E h \in Headers, query \in PointQueries : GetSummary(h, query) /\ UNCHANGED inflight
  \/ \E h \in Headers, query \in ApiRangeQueries : GetSummaryRange(h, query) /\ UNCHANGED inflight
  \/ \E h \in Headers, query \in ApiLastQueries : GetSummaryLast(h, query) /\ UNCHANGED inflight
  \/ \E h \in Headers, query \in ListQueries : GetList(h, query) /\ UNCHANGED inflight
  \/ \E h \in Headers, query \in ApiEntryRangeQueries : GetEntriesRange(h, query) /\ UNCHANGED inflight
  \/ \E h \in Headers : GetHealth(h) /\ UNCHANGED inflight
  \/ \E h \in Headers : GetTime(h) /\ UNCHANGED inflight
  \/ Tick /\ UNCHANGED inflight

SpecApi == Init /\ [][NextApi]_vars

(* the reads, between mutations and as the clock moves on *)
NextReads ==
  \/ \E payload \in ApiLogRequests : Log(payload) /\ UNCHANGED inflight
  \/ \E payload \in ApiDeleteRequests : Delete(payload) /\ UNCHANGED inflight
  \/ \E query \in PointQueries : Summary(query) /\ UNCHANGED inflight
  \/ \E query \in ApiRangeQueries : SummaryRange(query) /\ UNCHANGED inflight
  \/ \E query \in ApiLastQueries : SummaryLast(query) /\ UNCHANGED inflight
  \/ \E query \in ListQueries : List(query) /\ UNCHANGED inflight
  \/ \E query \in ApiEntryRangeQueries : EntriesRange(query) /\ UNCHANGED inflight
  \/ Tick /\ UNCHANGED inflight

SpecReads == Init /\ [][NextReads]_vars

(* the entry listings, over entries written at different times *)
WindowListQueries ==
  [date : {S(D1)}, limit : {Absent, IntText(1), IntText(0)}, offset : {Absent, IntText(1)}]

WindowRangeQueries ==
  [start : {S(D0)}, end : {S(D1), S(D3)},
   limit : {Absent, IntText(1), IntText(0)}, offset : {Absent, IntText(1)}]

NextList ==
  \/ \E payload \in RangeLogRequests : Log(payload) /\ UNCHANGED inflight
  \/ \E query \in WindowListQueries : List(query) /\ UNCHANGED inflight
  \/ \E query \in WindowRangeQueries : EntriesRange(query) /\ UNCHANGED inflight
  \/ Tick /\ UNCHANGED inflight

SpecList == Init /\ [][NextList]_vars

(* ======================= properties of the handlers ==================== *)
(* Vocabulary of the properties, stated without the handlers' helpers.     *)
LedgerTotal(t, d) == IF d \in DOMAIN t THEN t[d] ELSE 0

RECURSIVE SumOf(_, _)
SumOf(f, keys) ==
  IF keys = {} THEN 0
  ELSE LET k == CHOOSE x \in keys : TRUE IN f[k] + SumOf(f, keys \ {k})

EntrySum(e, d) ==
  SumOf([id \in DOMAIN e |-> e[id].calories], {id \in DOMAIN e : e[id].date = d})

GrandTotal(t) == SumOf(t, DOMAIN t)

KnownDates ==
  DOMAIN totals \cup {entries[id].date : id \in DOMAIN entries}
    \cup {S(D0), S(D1), S(D2), S(D3), EmptyStr}

(* the multiple of 0.01 nearest to a number, a tie going upwards; 0 for a  *)
(* value that is not a number                                              *)
Hundredths(v) ==
  IF ~v.isNum THEN 0
  ELSE CHOOSE r \in (v.milli - 4)..(v.milli + 5) : r % 10 = 0

RECURSIVE RequestCalories(_)
RequestCalories(items) ==
  IF items = << >> THEN 0
  ELSE Hundredths(Head(items).calories) + RequestCalories(Tail(items))

MealAccepted(m) == m \in {"breakfast", "lunch", "dinner", "snacks", "Lunch", "DINNER "}

ValidCreate(p) == Len(p.items) > 0 /\ MealAccepted(p.meal_type)

DateOf(str) == S(str.ymd)

(* C1: after any sequence of create, update and delete requests run one   *)
(* at a time, for every date the ledger total (0 when the row is absent)   *)
(* equals the sum of calories of the stored entries with that date.        *)
C1_LedgerMatchesEntries ==
  \A d \in KnownDates : LedgerTotal(totals, d) = EntrySum(entries, d)

C1_Witness ==
  /\ last.op = "delete" /\ last.status = 200
  /\ last.incs[1].delta # 0
  /\ last.total_calories # 0
  /\ \E a \in DOMAIN entries :
       entries[a].date = last.date /\ entries[a].calories = last.total_calories

(* C2: a valid create returns the total its date had before the request  *)
(* plus the sum of the request's item calories, and entry_ids holds one    *)
(* newly assigned identifier per item.                                     *)
C2_CreateReturnsNewTotal ==
  [][last'.op = "log" => \A p \in LogRequests :
       (ValidCreate(p) /\ Log(p)) =>
         /\ last'.status = 200
         /\ last'.total_calories
              = LedgerTotal(totals, DateOf(p.date)) + RequestCalories(p.items)
         /\ Len(last'.entry_ids) = Len(p.items)
         /\ \A i, j \in 1..Len(p.items) :
              i # j => last'.entry_ids[i] # last'.entry_ids[j]
         /\ \A i \in 1..Len(p.items) :
              /\ last'.entry_ids[i] \notin 1..counter
              /\ last'.entry_ids[i] \notin DOMAIN entries
              /\ last'.entry_ids[i] \in DOMAIN entries'
              /\ entries'[last'.entry_ids[i]].calories = Hundredths(p.items[i].calories)
              /\ entries'[last'.entry_ids[i]].date = DateOf(p.date)]_vars

C2_Witness ==
  /\ last.op = "log" /\ last.status = 200
  /\ Len(last.entry_ids) = 1
  /\ entries[last.entry_ids[1]].calories # 0
  /\ last.total_calories = 2 * entries[last.entry_ids[1]].calories

(* C3: a create with an empty item list or with a meal_type outside the   *)
(* four meal types is answered 400 and changes neither store: no entry is  *)
(* written and no increment is issued.                                     *)
C3_InvalidCreateRejected ==
  [][last'.op = "log" => \A p \in LogRequests :
       (~ValidCreate(p) /\ Log(p)) =>
         /\ last'.status = 400
         /\ last'.incs = << >>
         /\ entries' = entries /\ totals' = totals /\ counter' = counter]_vars

C3_Witness ==
  /\ last.op = "log" /\ last.status = 400
  /\ DOMAIN entries # {} /\ DOMAIN totals # {}

(* C4 as stated: an update of an entry_id that is not in the store is      *)
(* answered 404, issues no increment and changes no entry.                 *)
C4_UnknownIdAlways404 ==
  [][last'.op = "update" => \A p \in UpdateRequests :
       (p.entry_id \notin DOMAIN entries /\ last'.target = p.entry_id /\ Update(p)) =>
         /\ last'.status = 404
         /\ last'.incs = << >>
         /\ entries' = entries /\ totals' = totals]_vars

(* C4 amended: an update of an entry_id that is not in the store issues   *)
(* no increment and changes no entry; it is answered 404 when its update   *)
(* set passes validation, and 400 when it carries an unknown meal_type.    *)
C4_UnknownIdNotFound ==
  [][last'.op = "update" => \A p \in UpdateRequests :
       (p.entry_id \notin DOMAIN entries /\ last'.target = p.entry_id /\ Update(p)) =>
         /\ last'.status =
              (IF "meal_type" \in p.present /\ p.meal_type # "" /\ ~MealAccepted(p.meal_type)
               THEN 400 ELSE 404)
         /\ last'.incs = << >>
         /\ entries' = entries /\ totals' = totals]_vars

C4_Witness ==
  /\ last.op = "update" /\ last.status = 404
  /\ last.target \notin DOMAIN entries
  /\ DOMAIN entries # {}

NewCalories(p, old) ==
  IF "calories" \in p.present THEN Hundredths(p.calories) ELSE old

KeepsDate(p, old) ==
  "date" \notin p.present \/ p.date.ymd = << >> \/ DateOf(p.date) = old

(* C5: an update that leaves the entry's date unchanged issues exactly one *)
(* increment at that date, of new calories minus old calories, when that   *)
(* difference is not zero, and none when it is zero; the returned total is *)
(* the resulting total of that date.                                       *)
C5_SameDateDelta ==
  [][(last'.op = "update" /\ last'.status = 200) => \A p \in UpdateRequests :
       (/\ p.entry_id \in DOMAIN entries
        /\ KeepsDate(p, entries[p.entry_id].date)
        /\ last'.target = p.entry_id
        /\ Update(p)) =>
         LET old == entries[p.entry_id]
             diff == NewCalories(p, old.calories) - old.calories
         IN  /\ diff # 0 => last'.incs = << [date |-> old.date, delta |-> diff] >>
             /\ diff = 0 => last'.incs = << >>
             /\ last'.date = old.date
             /\ last'.total_calories = LedgerTotal(totals', old.date)
             /\ LedgerTotal(totals', old.date) = LedgerTotal(totals, old.date) + diff]_vars

C5_Witness ==
  /\ last.op = "update" /\ last.status = 200
  /\ "calories" \in last.fields
  /\ Len(last.incs) = 1
  /\ last.incs[1].date = last.date
  /\ last.incs[1].delta < 0
  /\ last.total_calories # 0

(* C6: an update that changes only the date of an entry from d1 to d2      *)
(* lowers the total of d1 by the entry's calories and raises the total of  *)
(* d2 by the same amount; the sum of the totals over all dates is kept.    *)
C6_DateMoveKeepsGrandTotal ==
  [][(last'.op = "update" /\ last'.status = 200) => \A p \in UpdateRequests :
       (/\ p.entry_id \in DOMAIN entries
        /\ p.present = {"date"}
        /\ ~KeepsDate(p, entries[p.entry_id].date)
        /\ last'.target = p.entry_id
        /\ Update(p)) =>
         LET old == entries[p.entry_id]
             d1 == old.date
             d2 == DateOf(p.date)
         IN  /\ LedgerTotal(totals', d1) = LedgerTotal(totals, d1) - old.calories
             /\ LedgerTotal(totals', d2) = LedgerTotal(totals, d2) + old.calories
             /\ GrandTotal(totals') = GrandTotal(totals)
             /\ entries'[p.entry_id].date = d2
             /\ entries'[p.entry_id].calories = old.calories]_vars

C6_Witness ==
  /\ last.op = "update" /\ last.status = 200
  /\ last.fields = {"date"}
  /\ Len(last.incs) = 2
  /\ last.incs[2].delta # 0
  /\ LedgerTotal(totals, last.incs[1].date) # 0

(* C7: an update of an existing entry with an empty update set issues no  *)
(* increment, returns the total the entry's date had before the request,   *)
(* and leaves every ledger row unchanged.                                  *)
C7_EmptyUpdateIsNoOp ==
  [][last'.op = "update" => \A p \in UpdateRequests :
       (/\ p.entry_id \in DOMAIN entries
        /\ p.present = {}
        /\ last'.target = p.entry_id
        /\ Update(p)) =>
         /\ last'.status = 200
         /\ last'.incs = << >>
         /\ last'.total_calories = LedgerTotal(totals, entries[p.entry_id].date)
         /\ totals' = totals]_vars

C7_Witness ==
  /\ last.op = "update" /\ last.status = 200
  /\ last.fields = {}
  /\ last.total_calories # 0
  /\ entries[last.entry_id].calories # 0

(* C8: a delete of an existing entry removes it from the entry store,      *)
(* lowers the total of the entry's stored date by the entry's stored       *)
(* calories, and returns that date with its total after the decrement.     *)
C8_DeleteDecrements ==
  [][last'.op = "delete" => \A p \in DeleteRequests :
       (/\ p.entry_id \in DOMAIN entries
        /\ last'.target = p.entry_id
        /\ Delete(p)) =>
         LET old == entries[p.entry_id]
         IN  /\ last'.status = 200
             /\ DOMAIN entries' = DOMAIN entries \ {p.entry_id}
             /\ \A id \in DOMAIN entries' : entries'[id] = entries[id]
             /\ \A d \in KnownDates :
                  LedgerTotal(totals', d)
                    = LedgerTotal(totals, d) - (IF d = old.date THEN old.calories ELSE 0)
             /\ last'.date = old.date
             /\ last'.total_calories = LedgerTotal(totals', old.date)
             /\ last'.entry_id = p.entry_id]_vars

C8_Witness ==
  /\ last.op = "delete" /\ last.status = 200
  /\ last.incs[1].delta # 0
  /\ last.total_calories # 0
  /\ last.entry_id \notin DOMAIN entries

(* C9: when the same entry_id is deleted twice in succession the first     *)
(* delete succeeds and the second is answered 404 without an increment, so *)
(* the ledger after the second delete is the ledger after the first.       *)
C9_SecondDeleteNotFound ==
  [][(last.op = "delete" /\ last.status = 200 /\ last'.op = "delete") =>
     \A p \in DeleteRequests :
       (last.entry_id = p.entry_id /\ last'.target = p.entry_id /\ Delete(p)) =>
         /\ last'.status = 404
         /\ last'.incs = << >>
         /\ totals' = totals
         /\ entries' = entries]_vars

C9_Witness ==
  /\ last.op = "delete" /\ last.status = 404
  /\ last.target \in 1..counter
  /\ last.target \notin DOMAIN entries
  /\ \E d \in DOMAIN totals : totals[d] # 0

(* C10: a flat range read with include_empty=true and start <= end returns *)
(* one row for every calendar date of [start, end] (end - start + 1 rows), *)
(* in ascending date order; a row holds the ledger total of its date, 0    *)
(* for a date without a ledger row.                                        *)
MonthLengths2026 == <<31, 28, 31, 30, 31, 30, 31, 31, 30, 31, 30, 31>>

IsCalendarDate(str) ==
  /\ ~str.ws /\ Len(str.ymd) = 3
  /\ str.ymd[1] = 2026
  /\ str.ymd[2] \in 1..12
  /\ str.ymd[3] \in 1..MonthLengths2026[str.ymd[2]]

DayOfYear(str) ==
  SumOf(MonthLengths2026, 1..(str.ymd[2] - 1)) + str.ymd[3]

FlatFilled(q) ==
  toLowerCase(q.group) # "meal_type" /\ toLowerCase(q.include_empty) = "true"

C10_FilledRangeRows ==
  [][last'.op = "summary-range" => \A q \in RangeQueries :
       (/\ FlatFilled(q)
        /\ IsCalendarDate(DateOf(q.start)) /\ IsCalendarDate(DateOf(q.end))
        /\ DayOfYear(DateOf(q.start)) <= DayOfYear(DateOf(q.end))
        /\ SummaryRange(q)) =>
         LET rows == last'.totals
             first == DayOfYear(DateOf(q.start))
             n == DayOfYear(DateOf(q.end)) - first + 1
         IN  /\ last'.status = 200
             /\ Len(rows) = n
             /\ \A i \in 1..n :
                  /\ IsCalendarDate(rows[i].date)
                  /\ DayOfYear(rows[i].date) = first + i - 1
                  /\ rows[i].total_calories = LedgerTotal(totals, rows[i].date)]_vars

C10_Witness ==
  /\ last.op = "summary-range" /\ last.status = 200 /\ last.group = ""
  /\ last.start = S(D0) /\ last.end = S(D3)
  /\ Len(last.totals) = 4
  /\ last.totals[1].total_calories = 0
  /\ last.totals[2].total_calories # 0
  /\ last.totals[3].total_calories # 0
  /\ last.totals[4].date = S(D3)
  /\ S(D0) \notin DOMAIN totals

(* C11: a flat range read with include_empty=false returns exactly the     *)
(* ledger rows whose date lies in [start, end]: one row per such date,     *)
(* holding the date's current ledger total, in ascending date order, and   *)
(* no row for any other date.                                              *)
DateNum(str) == str.ymd[1] * 10000 + str.ymd[2] * 100 + str.ymd[3]

FlatSparse(q) ==
  toLowerCase(q.group) # "meal_type" /\ toLowerCase(q.include_empty) # "true"

C11_SparseRangeRows ==
  [][last'.op = "summary-range" => \A q \in RangeQueries :
       (/\ FlatSparse(q)
        /\ Len(q.start.ymd) = 3 /\ Len(q.end.ymd) = 3
        /\ SummaryRange(q)) =>
         LET rows == last'.totals
             inside == {d \in DOMAIN totals :
                          /\ DateNum(DateOf(q.start)) <= DateNum(d)
                          /\ DateNum(d) <= DateNum(DateOf(q.end))}
         IN  /\ last'.status = 200
             /\ {rows[i].date : i \in 1..Len(rows)} = inside
             /\ Len(rows) = Cardinality(inside)
             /\ \A i \in 1..Len(rows) :
                  rows[i].total_calories = LedgerTotal(totals, rows[i].date)
             /\ \A i, j \in 1..Len(rows) :
                  i < j => DateNum(rows[i].date) < DateNum(rows[j].date)]_vars

C11_Witness ==
  /\ last.op = "summary-range" /\ last.status = 200 /\ last.group = ""
  /\ last.start = S(D0) /\ last.end = S(D3)
  /\ Len(last.totals) = 2
  /\ last.totals[1].date = S(D1) /\ last.totals[1].total_calories = 0
  /\ last.totals[2].date = S(D2) /\ last.totals[2].total_calories # 0
  /\ DOMAIN totals = {S(D1), S(D2)}

(* C12: a grouped range read returns for each output date the four buckets *)
(* breakfast, lunch, dinner, snacks, each the sum of the calories of the   *)
(* stored entries of that date and meal type (0 when there are none); with *)
(* include_empty=false the output dates are exactly the dates of [start,   *)
(* end] that have an entry, ascending; with include_empty=true they are    *)
(* every calendar date of [start, end].                                    *)
BucketSum(e, d, meal) ==
  SumOf([id \in DOMAIN e |-> e[id].calories],
        {id \in DOMAIN e : e[id].date = d /\ e[id].meal_type = meal})

Grouped(q) == toLowerCase(q.group) = "meal_type"

C12_GroupedRangeBuckets ==
  [][last'.op = "summary-range" => \A q \in GroupQueries :
       (/\ Grouped(q)
        /\ \/ toLowerCase(q.include_empty) # "true"
           \/ DateNum(DateOf(q.start)) <= DateNum(DateOf(q.end))
        /\ SummaryRange(q)) =>
         LET rows == last'.totals
             lo == DateNum(DateOf(q.start))
             hi == DateNum(DateOf(q.end))
             withEntry == {d \in {entries[id].date : id \in DOMAIN entries} :
                             lo <= DateNum(d) /\ DateNum(d) <= hi}
         IN  /\ last'.status = 200
             /\ \A i \in 1..Len(rows) :
                  /\ DOMAIN rows[i].totals = MEAL_TYPES
                  /\ \A meal \in MEAL_TYPES :
                       rows[i].totals[meal] = BucketSum(entries, rows[i].date, meal)
             /\ \A i, j \in 1..Len(rows) :
                  i < j => DateNum(rows[i].date) < DateNum(rows[j].date)
             /\ IF toLowerCase(q.include_empty) = "true"
                THEN /\ Len(rows) = DayOfYear(DateOf(q.end)) - DayOfYear(DateOf(q.start)) + 1
                     /\ \A i \in 1..Len(rows) :
                          /\ IsCalendarDate(rows[i].date)
                          /\ DayOfYear(rows[i].date) = DayOfYear(DateOf(q.start)) + i - 1
                ELSE /\ {rows[i].date : i \in 1..Len(rows)} = withEntry
                     /\ Len(rows) = Cardinality(withEntry)]_vars

C12_Witness ==
  /\ last.op = "summary-range" /\ last.status = 200 /\ last.group = "meal_type"
  /\ Len(last.totals) = 1
  /\ last.totals[1].date = S(D1)
  /\ last.totals[1].totals.lunch = 0
  /\ last.totals[1].totals.dinner = 2000
  /\ last.totals[1].totals.snacks = 0
  /\ Cardinality(DOMAIN entries) = 2

(* C13: every range operation (the flat and the grouped range read with    *)
(* include_empty true or false, the range entry listing) called with       *)
(* start > end is answered with a validation failure (400) and returns no  *)
(* rows.                                                                   *)
StartAfterEnd(q) ==
  /\ Len(q.start.ymd) = 3 /\ Len(q.end.ymd) = 3
  /\ DateNum(DateOf(q.start)) > DateNum(DateOf(q.end))

C13_StartAfterEndFails ==
  [][/\ last'.op = "summary-range" => \A q \in RangeQueries :
          (StartAfterEnd(q) /\ SummaryRange(q)) =>
            last'.status = 400 /\ last'.totals = << >>
     /\ last'.op = "entries-range" => \A q \in EntryRangeQueries :
          (StartAfterEnd(q) /\ EntriesRange(q)) =>
            last'.status = 400 /\ last'.entries = << >>]_vars

(* C14: the trailing-window read is answered with a validation failure,    *)
(* without a read of the ledger, when days is not positive or not finite;  *)
(* for a positive integer days = N it uses end = today and start = today   *)
(* - (N - 1) days, and with include_empty=true it returns exactly N rows,  *)
(* one per date from start to end.                                         *)
TodayOfYear == DayOfYear(S(ClockEpoch)) + now

C14_TrailingWindow ==
  [][last'.op = "summary-last" => \A q \in LastQueries :
       (q.days.kind # "absent" /\ SummaryLast(q)) =>
         IF q.days.kind # "number" \/ q.days.n <= 0
         THEN /\ last'.status = 400
              /\ last'.reads = << >>
              /\ last'.totals = << >>
         ELSE LET n == q.days.n
                  rows == last'.totals
              IN  /\ last'.status = 200
                  /\ IsCalendarDate(last'.end) /\ IsCalendarDate(last'.start)
                  /\ DayOfYear(last'.end) = TodayOfYear
                  /\ DayOfYear(last'.start) = TodayOfYear - (n - 1)
                  /\ last'.reads = <<[start |-> last'.start, end |-> last'.end]>>
                  /\ toLowerCase(q.include_empty) = "true" =>
                       /\ Len(rows) = n
                       /\ \A i \in 1..n :
                            /\ IsCalendarDate(rows[i].date)
                            /\ DayOfYear(rows[i].date) = DayOfYear(last'.start) + i - 1
                            /\ rows[i].total_calories = LedgerTotal(totals, rows[i].date)]_vars

C14_Witness ==
  /\ last.op = "summary-last" /\ last.status = 200
  /\ now = 1
  /\ last.start = S(D1) /\ last.end = S(D3)
  /\ Len(last.totals) = 3
  /\ last.totals[1].total_calories # 0
  /\ last.totals[3].total_calories = 0

(* C15: for create requests on one date that overlap, under every          *)
(* interleaving of their entry writes, ledger increments and total reads,  *)
(* no increment is lost: at every moment the ledger total of the date is   *)
(* the sum of the deltas of the increments made so far, and once all the   *)
(* requests have completed it is the sum of all their deltas, which is the *)
(* sum of the calories of the entries they wrote.                          *)
RECURSIVE DeltaSum(_, _)
DeltaSum(incs, d) ==
  IF incs = << >> THEN 0
  ELSE (IF Head(incs).date = d THEN Head(incs).delta ELSE 0) + DeltaSum(Tail(incs), d)

IssuedSum(d) ==
  SumOf([r \in Slots |-> DeltaSum(inflight[r].issued, d)], Slots)

C15_NoLostIncrement ==
  \A d \in KnownDates :
    /\ LedgerTotal(totals, d) = IssuedSum(d)
    /\ NoneInFlight => LedgerTotal(totals, d) = EntrySum(entries, d)

C15_Witness ==
  /\ NoneInFlight
  /\ inflight[1].pc = "done" /\ inflight[2].pc = "done"
  /\ inflight[1].reply.status = 200 /\ inflight[2].reply.status = 200
  /\ inflight[1].reply.entry_ids = <<1>> /\ inflight[2].reply.entry_ids = <<2>>
  /\ inflight[2].reply.total_calories = entries[2].calories
  /\ inflight[1].reply.total_calories = entries[1].calories + entries[2].calories
  /\ entries[1].calories # entries[2].calories

(* C16: when an update and a delete of the same entry_id overlap, any      *)
(* over- or under-count of the ledger is transient: under every            *)
(* interleaving, once both requests have finished (and nothing else is in  *)
(* flight), the ledger total of every date equals the sum of the calories  *)
(* of the stored entries of that date.                                     *)
UpdateAndDeleteOfOneEntry ==
  \E u, d \in Slots :
    /\ inflight[u].op = "update" /\ inflight[d].op = "delete"
    /\ inflight[u].entry_ids = inflight[d].entry_ids
    /\ \A r \in Slots \ {u, d} : inflight[r].op \in {"none", "log"}

C16_RaceIsTransient ==
  (NoneInFlight /\ UpdateAndDeleteOfOneEntry) =>
    \A d \in KnownDates : LedgerTotal(totals, d) = EntrySum(entries, d)

(* C17: when the storage rejects the ledger increment of a create, update  *)
(* or delete whose entry-store write has been made, the request is         *)
(* answered with a failure, the entry-store change stays (nothing is       *)
(* rolled back), the ledger rows keep the values they had, and the ledger  *)
(* differs from the entry sum by exactly the deltas that were not applied. *)
MissingSum(d) ==
  SumOf([r \in Slots |-> IF inflight[r].pc = "done" THEN DeltaSum(inflight[r].incs, d) ELSE 0],
        Slots)

EntryWriteStands(h, e) ==
  CASE h.op = "log" -> \A i \in 1..Len(h.entry_ids) : h.entry_ids[i] \in DOMAIN e
    [] h.op = "update" ->
         /\ h.entry_ids[1] \in DOMAIN e
         /\ e[h.entry_ids[1]].date = h.date
         /\ "calories" \in h.data.has => e[h.entry_ids[1]].calories = h.data.calories
    [] h.op = "delete" -> h.entry_ids[1] \notin DOMAIN e
    [] OTHER -> FALSE

C17_FailedIncrementLeavesDrift ==
  [][\A r \in Slots :
       (/\ inflight[r].pc = "increment"
        /\ inflight[r].issued = << >>
        /\ inflight'[r].pc = "done"
        /\ IncrementFails(r)) =>
         /\ last'.status = 400
         /\ inflight'[r].reply.status = 400
         /\ entries' = entries
         /\ EntryWriteStands(inflight[r], entries')
         /\ totals' = totals
         /\ \A d \in KnownDates' :
              EntrySum(entries', d) - LedgerTotal(totals', d) = MissingSum(d)']_vars

C17_Witness ==
  /\ last.op = "update" /\ last.status = 400
  /\ \E r \in Slots :
       /\ inflight[r].pc = "done" /\ inflight[r].op = "update"
       /\ Len(inflight[r].incs) = 2
  /\ 1 \in DOMAIN entries /\ entries[1].date = S(D2)
  /\ LedgerTotal(totals, S(D1)) = entries[1].calories
  /\ LedgerTotal(totals, S(D2)) = 0
  /\ entries[1].calories # 0

(* C18: a create whose date is missing or is not a well-formed YYYY-MM-DD  *)
(* calendar date, and an update that carries such a date, is answered with *)
(* a validation failure (400) before any store mutation: no entry is       *)
(* written or changed and no ledger increment is issued.                   *)
C18_BadDateRejected ==
  [][/\ last'.op = "log" => \A p \in DateLogRequests :
          (~IsCalendarDate(DateOf(p.date)) /\ Log(p)) =>
            /\ last'.status = 400 /\ last'.incs = << >>
            /\ entries' = entries /\ totals' = totals
     /\ last'.op = "update" => \A p \in DateUpdateRequests :
          (/\ "date" \in p.present
           /\ ~IsCalendarDate(DateOf(p.date))
           /\ p.entry_id \in DOMAIN entries
           /\ last'.target = p.entry_id
           /\ Update(p)) =>
            /\ last'.status = 400 /\ last'.incs = << >>
            /\ entries' = entries /\ totals' = totals]_vars

(* C19: every endpoint other than /health answers 401 to a request whose   *)
(* X-Auth-Token header is missing or differs from the configured token,    *)
(* and such a request changes nothing in the entry store or the ledger.    *)
TokenAccepted(h) == h.token = AuthToken

Refused ==
  /\ last'.status = 401
  /\ entries' = entries /\ totals' = totals /\ counter' = counter

C19_NoTokenNoService ==
  [][\A h \in Headers : ~TokenAccepted(h) =>
       /\ \A p \in ApiLogRequests : PostLog(h, p) => Refused
       /\ \A p \in ApiUpdateRequests : PostUpdate(h, p) => Refused
       /\ \A p \in ApiDeleteRequests : PostDelete(h, p) => Refused
       /\ \A q \in PointQueries : GetSummary(h, q) => Refused
       /\ \A q \in ApiRangeQueries : GetSummaryRange(h, q) => Refused
       /\ \A q \in ApiLastQueries : GetSummaryLast(h, q) => Refused
       /\ \A q \in ListQueries : GetList(h, q) => Refused
       /\ \A q \in ApiEntryRangeQueries : GetEntriesRange(h, q) => Refused
       /\ GetTime(h) => Refused]_vars

(* C20: the read operations (point read, flat and grouped range read,      *)
(* trailing-window read, the two entry listings) never change the entry    *)
(* store or the ledger, and the same read made again with no mutation in   *)
(* between (and on the same day, for the trailing window) returns the same *)
(* output as the first.                                                    *)
ReadOps == {"summary", "summary-range", "summary-last", "list", "entries-range"}

C20_ReadsArePure ==
  [][/\ last'.op \in ReadOps =>
          entries' = entries /\ totals' = totals /\ counter' = counter
     /\ last'.op = "summary" => \A q \in PointQueries :
          Summary(q) => SummaryReply(totals', q) = last'
     /\ last'.op = "summary-range" => \A q \in ApiRangeQueries :
          SummaryRange(q) => SummaryRangeReply(entries', totals', q) = last'
     /\ last'.op = "summary-last" => \A q \in ApiLastQueries :
          SummaryLast(q) => SummaryLastReply(totals', now', q) = last'
     /\ last'.op = "list" => \A q \in ListQueries :
          List(q) => ListReply(entries', q) = last'
     /\ last'.op = "entries-range" => \A q \in ApiEntryRangeQueries :
          EntriesRange(q) => EntriesRangeReply(entries', q) = last']_vars

C20_Witness ==
  /\ last.op = "summary" /\ last.status = 200
  /\ last.date = S(D2) /\ last.total_calories = 0
  /\ S(D2) \notin DOMAIN totals
  /\ DOMAIN entries # {}

(* C21: the single-day listing returns only entries of the requested date, *)
(* ordered by timestamp descending; the range listing returns only entries *)
(* with start <= date <= end, ordered by date ascending and by timestamp   *)
(* descending within a date; each returns the window of at most limit      *)
(* entries that starts at position offset of that ordered sequence.        *)
ComesBefore(a, b) ==
  \/ DateNum(a.date) < DateNum(b.date)
  \/ a.date = b.date /\ a.timestamp > b.timestamp

LimitOf(q) == IF q.limit.kind = "absent" THEN DefaultLimit ELSE q.limit.n
OffsetOf(q) == IF q.offset.kind = "absent" THEN DefaultOffset ELSE q.offset.n

(* rows is the window [off + 1, off + lim] of the matching entries in order, *)
(* entries that tie standing in either order                               *)
IsWindow(rows, matching, lim, off) ==
  LET n == Cardinality(matching)
      rest == IF n > off THEN n - off ELSE 0
  IN  /\ Len(rows) = (IF lim < rest THEN lim ELSE rest)
      /\ \A i \in 1..Len(rows) : rows[i] \in matching
      /\ \A i, j \in 1..Len(rows) :
           i < j => rows[i].entry_id # rows[j].entry_id /\ ~ComesBefore(rows[j], rows[i])
      /\ \A i \in 1..Len(rows) :
           /\ Cardinality({m \in matching : ComesBefore(m, rows[i])}) <= off + i - 1
           /\ Cardinality({m \in matching : ComesBefore(rows[i], m)}) <= n - (off + i)

StoredEntries(e) == {e[id] : id \in DOMAIN e}

C21_ListingsOrderedAndWindowed ==
  [][/\ last'.op = "list" => \A q \in WindowListQueries :
          List(q) =>
            /\ last'.status = 200
            /\ IsWindow(last'.entries,
                        {x \in StoredEntries(entries) : x.date = DateOf(q.date)},
                        LimitOf(q), OffsetOf(q))
     /\ last'.op = "entries-range" => \A q \in WindowRangeQueries :
          EntriesRange(q) =>
            /\ last'.status = 200
            /\ IsWindow(last'.entries,
                        {x \in StoredEntries(entries) :
                           /\ DateNum(DateOf(q.start)) <= DateNum(x.date)
                           /\ DateNum(x.date) <= DateNum(DateOf(q.end))},
                        LimitOf(q), OffsetOf(q))]_vars

C21_Witness ==
  /\ last.op = "entries-range" /\ last.status = 200
  /\ last.start = S(D0) /\ last.end = S(D3)
  /\ Len(last.entries) = 1
  /\ DOMAIN entries = {1, 2}
  /\ entries[1].date = S(D1) /\ entries[2].date = S(D1)
  /\ entries[2].timestamp > entries[1].timestamp
  /\ last.entries[1] = entries[1]

(* C22 as stated: while a create, update or delete that goes on to         *)
(* complete successfully is under way, no state a concurrent reader can    *)
(* observe has a ledger total that differs from the sum of the calories of *)
(* the stored entries of that date.                                        *)
C22_NoObservableDrift ==
  \A d \in KnownDates : LedgerTotal(totals, d) = EntrySum(entries, d)

(* C22, amended: the ledger equals the entry sum whenever no mutation is   *)
(* under way; between the entry write of a mutation and its last ledger    *)
(* increment the two differ, for every date, by exactly the deltas the     *)
(* mutation has not applied yet.                                           *)
PendingSum(d) ==
  SumOf([r \in Slots |-> IF inflight[r].pc = "increment"
                          THEN DeltaSum(inflight[r].incs, d) ELSE 0],
        Slots)

C22_DriftIsThePendingDeltas ==
  \A d \in KnownDates :
    /\ EntrySum(entries, d) - LedgerTotal(totals, d) = PendingSum(d)
    /\ NoneInFlight => LedgerTotal(totals, d) = EntrySum(entries, d)

C22_Witness ==
  \E r \in Slots :
    /\ inflight[r].pc = "increment" /\ inflight[r].op = "update"
    /\ Len(inflight[r].incs) = 1 /\ Len(inflight[r].issued) = 1
    /\ LedgerTotal(totals, S(D1)) = 0 /\ LedgerTotal(totals, S(D2)) = 0
    /\ EntrySum(entries, S(D2)) # 0

(* the stores after serving one request alone, start to finish *)
ServedAlone(st, h) ==
  IF h.op = "log"
  THEN LET res == createEntries(st.entries, st.counter, LogEntryInputs(h.data, now))
       IN  [entries |-> res.entries, counter |-> res.counter,
            totals |-> updateDailyTotal(st.totals, LogIncrements(h.data))]
  ELSE IF h.op \in {"update", "delete"} /\ getEntry(st.entries, h.entry_ids[1])
  THEN LET cur == st.entries[h.entry_ids[1]]
           up == UpdatePayload(h.data, cur)
       IN  IF h.op = "update"
           THEN [st EXCEPT !.entries = updateEntry(@, h.entry_ids[1], up),
                           !.totals = updateDailyTotal(@,
                                        UpdateIncrements(cur, up.date, up.calories))]
           ELSE [st EXCEPT !.entries = deleteEntry(@, h.entry_ids[1]),
                           !.totals = updateDailyTotal(@, DeleteIncrements(cur))]
  ELSE st

(* the stores after serving the first k requests one after the other, in   *)
(* the order they arrived                                                  *)
RECURSIVE OneAfterTheOther(_)
OneAfterTheOther(k) ==
  IF k = 0 THEN [entries |-> EmptyMap, counter |-> 0, totals |-> EmptyMap]
  ELSE ServedAlone(OneAfterTheOther(k - 1), inflight[k])

AllSucceeded ==
  \A r \in Slots : inflight[r].pc = "idle"
                    \/ (inflight[r].pc = "done" /\ inflight[r].reply.status = 200)

DistinctTargets ==
  \A r, q \in Slots :
    (/\ r # q
     /\ inflight[r].op \in {"update", "delete"}
     /\ inflight[q].op \in {"update", "delete"})
      => inflight[r].entry_ids # inflight[q].entry_ids

(* C23: when creates, updates and deletes that overlap, no two of them     *)
(* aimed at the same entry_id, have all completed successfully, the ledger *)
(* total of every date equals the sum of the stored entries of that date,  *)
(* and the entry store and the ledger are the ones reached by serving the  *)
(* same requests one after the other: they do not depend on the order in   *)
(* which the steps of the requests were interleaved.                       *)
C23_DistinctTargetsCommute ==
  (AllSucceeded /\ DistinctTargets) =>
    /\ \A d \in KnownDates : LedgerTotal(totals, d) = EntrySum(entries, d)
    /\ entries = OneAfterTheOther(MaxRequests).entries
    /\ totals = OneAfterTheOther(MaxRequests).totals

C23_Witness ==
  /\ AllSucceeded /\ DistinctTargets
  /\ inflight[1].op = "log" /\ inflight[2].op = "delete" /\ inflight[3].op = "update"
  /\ inflight[3].date = S(D2)
  /\ inflight[1].reply.total_calories = 0
  /\ DOMAIN entries = {1}

EntryFields == {"date", "meal_type", "item", "calories"}

(* C24: an update changes only fields that are present in its update set:  *)
(* every field absent from the update set keeps its stored value, entry_id  *)
(* and timestamp are never changed, and no other entry is changed.          *)
C24_UpdateTouchesOnlyItsFields ==
  [][last'.op = "update" => \A p \in FieldUpdateRequests :
       (/\ p.entry_id \in DOMAIN entries
        /\ last'.target = p.entry_id
        /\ last'.fields = p.present
        /\ Update(p)) =>
         /\ last'.status = 200
         /\ DOMAIN entries' = DOMAIN entries
         /\ \A id \in DOMAIN entries \ {p.entry_id} : entries'[id] = entries[id]
         /\ entries'[p.entry_id].entry_id = p.entry_id
         /\ entries'[p.entry_id].timestamp = entries[p.entry_id].timestamp
         /\ \A f \in EntryFields \ p.present :
              entries'[p.entry_id][f] = entries[p.entry_id][f]]_vars

C24_Witness ==
  /\ last.op = "update" /\ last.status = 200
  /\ last.fields = {"meal_type", "calories"}
  /\ DOMAIN entries = {1, 2}
  /\ entries[1].meal_type = "dinner" /\ entries[1].calories = 2510
  /\ entries[1].item = "Apple" /\ entries[1].date = S(D2)
  /\ entries[1].timestamp = 0 /\ now = 2
  /\ entries[2].item = "Banana"

(* the grouped range read of every date the requests can name *)
GroupedRows ==
  SummaryRangeReply(entries, totals,
                    [start |-> S(D0), end |-> S(D3),
                     include_empty |-> "TRUE", group |-> "Meal_Type"]).totals

(* C25: in every reachable state the meal_type of every stored entry is    *)
(* one of breakfast, lunch, dinner and snacks; hence the grouped range read *)
(* drops no calories: the four buckets of a date add up to the calories of  *)
(* the stored entries of that date.                                         *)
C25_StoredMealTypesAreKnown ==
  /\ \A id \in DOMAIN entries : entries[id].meal_type \in MEAL_TYPES
  /\ \A i \in 1..Len(GroupedRows) :
       SumOf(GroupedRows[i].totals, MEAL_TYPES) = EntrySum(entries, GroupedRows[i].date)

C25_Witness ==
  /\ last.op = "update" /\ last.status = 400
  /\ DOMAIN entries = {1, 2}
  /\ entries[1].meal_type = "dinner" /\ entries[2].meal_type = "lunch"
  /\ entries[1].date = entries[2].date
  /\ entries[2].calories = 2510
  /\ \E i \in 1..Len(GroupedRows) :
       GroupedRows[i].totals.dinner = 1000 /\ GroupedRows[i].totals.lunch = 2510

(* C26: in every reachable state every stored entry has calories >= 0: no  *)
(* create or update request can store a negative calorie value.            *)
C26_NoNegativeCalories ==
  \A id \in DOMAIN entries : entries[id].calories >= 0

(* the multiple of 0.01 nearest to a number of thousandths, a tie going to *)
(* the one farther from zero                                               *)
HalfAwayFromZero(milli) ==
  IF milli >= 0 THEN ((milli + 5) \div 10) * 10
  ELSE 0 - ((((0 - milli) + 5) \div 10) * 10)

(* C27: numberOrZero rounds every numeric input, positive or negative, to  *)
(* the nearest multiple of 0.01, and an input exactly halfway between two   *)
(* multiples of 0.01 to the one farther from zero; the inputs are integer   *)
(* thousandths, the results the calories a create stores.                   *)
C27_RoundsHalfAwayFromZero ==
  [][(last'.op = "log" /\ last'.status = 200) => \A p \in RoundLogRequests :
       Log(p) =>
         entries'[last'.entry_ids[1]].calories
           = HalfAwayFromZero(p.items[1].calories.milli)]_vars

(* C28: when two delete requests for the same existing entry_id overlap,   *)
(* then under every interleaving of their steps the calories of the entry  *)
(* are subtracted from the ledger exactly once and at most one of the two   *)
(* requests reports success.                                                *)
DeletedBy(r, id) ==
  /\ inflight[r].pc = "done"
  /\ inflight[r].reply.op = "delete"
  /\ inflight[r].reply.target = id

C28_DoubleDeleteCountsOnce ==
  \A r, q \in Slots : \A id \in EntryIds :
    (/\ r < q
     /\ DeletedBy(r, id) /\ DeletedBy(q, id)
     /\ 200 \in {inflight[r].reply.status, inflight[q].reply.status}) =>
      /\ Len(inflight[r].issued) + Len(inflight[q].issued) = 1
      /\ {inflight[r].reply.status, inflight[q].reply.status} # {200}

(* C29: when two update requests that change the calories of the same      *)
(* entry_id overlap, then under every interleaving of their steps, once     *)
(* both have completed, the ledger total of the entry's date equals the sum *)
(* of the calories of the stored entries of that date: it reflects only the *)
(* value written last.                                                      *)
TwoCalorieUpdatesOfOneEntry ==
  \E u, v \in Slots :
    /\ u < v
    /\ inflight[u].op = "update" /\ inflight[v].op = "update"
    /\ inflight[u].entry_ids = inflight[v].entry_ids
    /\ "calories" \in inflight[u].data.has /\ "calories" \in inflight[v].data.has
    /\ \A r \in Slots \ {u, v} : inflight[r].op \in {"none", "log"}

C29_LastCalorieUpdateStands ==
  (NoneInFlight /\ TwoCalorieUpdatesOfOneEntry) =>
    \A d \in KnownDates : LedgerTotal(totals, d) = EntrySum(entries, d)

(* the flat and the grouped range read of an interval, empty days included *)
FlatRead(i) ==
  SummaryRangeReply(entries, totals,
                    [start |-> i.start, end |-> i.end,
                     include_empty |-> "TRUE", group |-> ""])

GroupedRead(i) ==
  SummaryRangeReply(entries, totals,
                    [start |-> i.start, end |-> i.end,
                     include_empty |-> "TRUE", group |-> "Meal_Type"])

(* C30: in every state reached by mutations that completed successfully,   *)
(* none being in flight, the flat and the grouped range read with           *)
(* include_empty=true over the same interval agree: both return one row per *)
(* date of [start, end], and for every date the four meal-type buckets of   *)
(* the grouped read add up to the total_calories of the flat read.          *)
C30_FlatAndGroupedAgree ==
  \A i \in AgreeIntervals :
    LET flat == FlatRead(i).totals
        grouped == GroupedRead(i).totals
    IN  /\ FlatRead(i).status = 200 /\ GroupedRead(i).status = 200
        /\ Len(flat) = Len(grouped)
        /\ Len(flat) = DayOfYear(DateOf(i.end)) - DayOfYear(DateOf(i.start)) + 1
        /\ \A k \in 1..Len(flat) :
             /\ flat[k].date = grouped[k].date
             /\ SumOf(grouped[k].totals, MEAL_TYPES) = flat[k].total_calories

C30_Witness ==
  LET i == [start |-> S(D0), end |-> S(D3)]
  IN  /\ Cardinality(DOMAIN entries) = 2
      /\ last.op = "update" /\ last.status = 200 /\ last.fields = {"date"}
      /\ FlatRead(i).totals[3].date = S(D2)
      /\ FlatRead(i).totals[3].total_calories = 3510
      /\ GroupedRead(i).totals[3].totals.lunch = 1000
      /\ GroupedRead(i).totals[3].totals.dinner = 2510
      /\ FlatRead(i).totals[2].total_calories = 0

(* the flat and the grouped range read of an interval, empty days left out *)
FlatSparseRead(i) ==
  SummaryRangeReply(entries, totals,
                    [start |-> i.start, end |-> i.end,
                     include_empty |-> "", group |-> ""])

GroupedSparseRead(i) ==
  SummaryRangeReply(entries, totals,
                    [start |-> i.start, end |-> i.end,
                     include_empty |-> "", group |-> "Meal_Type"])

RowDates(rows) == {rows[k].date : k \in 1..Len(rows)}

InInterval(d, i) ==
  /\ DateNum(DateOf(i.start)) <= DateNum(d)
  /\ DateNum(d) <= DateNum(DateOf(i.end))

DatesWithEntry(i) ==
  {d \in {entries[id].date : id \in DOMAIN entries} : InInterval(d, i)}

DatesWithRow(i) == {d \in DOMAIN totals : InInterval(d, i)}

(* C31 as stated: in every state reached by mutations that completed       *)
(* successfully, none being in flight, the flat and the grouped range read *)
(* with include_empty=false over the same interval return the same set of   *)
(* dates: the dates of the interval that have at least one stored entry.    *)
C31_SparseReadsSameDates ==
  \A i \in AgreeIntervals :
    /\ RowDates(FlatSparseRead(i).totals) = DatesWithEntry(i)
    /\ RowDates(GroupedSparseRead(i).totals) = DatesWithEntry(i)

(* C31, amended: the grouped read returns the dates of the interval that   *)
(* have at least one stored entry; the flat read returns the dates of the   *)
(* interval that have a ledger row, which are those dates and, with a total *)
(* of zero, the dates whose entries have all been deleted or moved away.    *)
C31_FlatKeepsEmptiedDates ==
  \A i \in AgreeIntervals :
    LET flat == FlatSparseRead(i).totals
        grouped == GroupedSparseRead(i).totals
    IN  /\ FlatSparseRead(i).status = 200 /\ GroupedSparseRead(i).status = 200
        /\ RowDates(grouped) = DatesWithEntry(i)
        /\ RowDates(flat) = DatesWithRow(i)
        /\ DatesWithEntry(i) \subseteq RowDates(flat)
        /\ \A k \in 1..Len(flat) :
             flat[k].date \notin DatesWithEntry(i) => flat[k].total_calories = 0

C31_Witness ==
  LET i == [start |-> S(D0), end |-> S(D3)]
  IN  /\ last.op = "update" /\ last.status = 200 /\ last.fields = {"date"}
      /\ RowDates(GroupedSparseRead(i).totals) = {S(D2)}
      /\ RowDates(FlatSparseRead(i).totals) = {S(D1), S(D2)}
      /\ FlatSparseRead(i).totals[1].total_calories = 0
      /\ FlatSparseRead(i).totals[2].total_calories = 1000

====
